---- MODULE Spec2Model ----
(***************************************************************************)
(* A model of nostr-over-bt: the hybrid publish pipeline                   *)
(* (TransportManager), the P2P feed (FeedManager, FeedIndex, FeedTracker), *)
(* the reseed cache and the relay's event store (RelayDatabase).           *)
(*                                                                         *)
(* Each subsystem has its own next-state relation over its own group of    *)
(* variables; the other groups stay at their initial values, so that every *)
(* specification below starts from the same constructed state.             *)
(***************************************************************************)
EXTENDS Integers, Naturals, Sequences, FiniteSets, TLC

VARIABLES
    \* ---- TransportManager.publish (one call in flight) ----
    pubPc,          \* position of the publish() call
    signedEvent,    \* [valid |-> does EventSchema.parse accept it]
    mediaFiles,     \* the mediaFiles argument: Seq([buffer, filename])
    relayStatus,    \* outcome of transport.nostr.publish: "none" | "ok" | "err"
    seedPromises,   \* one entry per bt.publish call: "pending" | "ok" | "err"
    pubResult       \* what publish() settled with

VARIABLES
    \* ---- FeedManager of one publisher, the DHT and the swarm ----
    seq,            \* FeedManager.seq
    index,          \* FeedManager.index.items
    dht,            \* the mutable record stored for the publisher's key
    swarm,          \* the index buffers seeded so far (by content)
    calls,          \* the FeedManager calls in flight, one record per slot
    putLog,         \* history: the seqs of the last two successful PUTs
    fedEvents       \* history: ids whose updateFeed has resolved

VARIABLES
    \* ---- a subscribing peer: its FeedTracker and one subscribeP2P call ----
    trackerCache,   \* FeedTracker.cache entry for the publisher's key
    sub,            \* the subscribeP2P call in flight
    subResult       \* what the last subscribeP2P settled with

VARIABLES
    \* ---- TransportManager: reseedEvent and handleIncomingEvent ----
    wotManager,     \* options.wotManager: [present, follows]
    feedManager,    \* is options.feedManager configured
    magnetCache,    \* the LRU magnet cache, least recently used first
    tasks,          \* the performSeed() runs in flight, one record per slot
    lastReturn,     \* history: how the last reseedEvent or
                    \*          handleIncomingEvent call settled
    returnedIds,    \* history: ids for which a reseedEvent call has returned
    completed       \* history: id -> magnet of its latest successful seed
                    \*          that has not been evicted since ("" if none)

VARIABLES
    \* ---- TransportManager.fetchMedia (one call in flight) ----
    mediaPc,        \* "idle" | "bt" (awaiting bt.fetch) | "done"
    mediaTags,      \* event.tags of the call
    mediaBt,        \* outcome of bt.fetch: "none" (not called) | "ok" | "err"
    mediaHttp,      \* was the HTTP branch taken
    mediaResult     \* what fetchMedia settled with

VARIABLES
    \* ---- the relay's RelayDatabase ----
    events,         \* table events: a set of rows, id is the primary key
    tagsTable,      \* table tags: rows [event_id, name, value] in rowid order
    saves           \* history: the saveEvent calls made, with their effect

VARIABLES
    \* ---- the relay server (apps/relay/src/index.js) ----
    allowed,        \* the ALLOWED_PUBKEYS set
    configured,     \* process.env.ALLOWED_PUBKEYS is set
    seedingQueue,   \* [present |-> ENABLE_BT, jobs |-> events enqueued, in order]
    clients,        \* per connection: [open, subscriptions]
    outbox,         \* per connection: the messages the last handler sent it
    lastEvent       \* the EVENT message the last handler processed, if any

VARIABLES
    \* ---- the Web of Trust graph and its P2P synchronisation ----
    follows,        \* WoTManager.follows: pubkey -> record, or absent
    maxDegree,      \* WoTManager.maxDegree
    net,            \* per pubkey: what the relay, DHT and swarm answer for it
    lastInserts,    \* history: the inserts of the last graph operation
    wotSync,        \* a syncWoTRecursiveP2P call: [pc, d, pending]
    followsSub      \* a subscribeFollowsP2P call

VARIABLES
    \* ---- a FeedIndex on its own ----
    feedIndex,      \* [limit, items, updatedAt]
    clock,          \* Math.floor(Date.now() / 1000)
    added,          \* history: the events add was called with
    dupAdded,       \* history: add was called with an id already added
    lastAdd         \* history: the last add call and the index it found

VARIABLES
    \* ---- a FeedManager publishing and resolving its own feed pointer ----
    ptrSeq,         \* this.seq
    ptrStart,       \* history: this.seq as the constructor set it
    ptrNpk,         \* identity.nostrPubkey: hex characters, <<>> when unset
    ptrDht,         \* the DHT record stored under the manager's key
    ptrCall,        \* the publishFeedPointer call
    ptrPublished,   \* history: publishFeedPointer calls that resolved
    ptrResolved     \* what the last resolveFeedPointer call returned

VARIABLES
    \* ---- EventPackager calls ----
    pkEvent,        \* the event given to package / getFilename
    pkBuffer,       \* what package returned: [threw, data]
    pkUnpacked,     \* what unpack returned: [called, garbage, threw, event]
    pkFilename      \* what getFilename returned

VARIABLES
    \* ---- the seeding queues of the relay (Queue.js, SeedingQueue.js) ----
    qKind,          \* which SeedingQueue class the relay constructed
    qConcurrency,   \* the Worker's concurrency option; 0 before construction
    qJobs,          \* BullMQ jobs: id -> [state, event, attemptsMade, delays]
    qWait,          \* ids of the jobs in the wait list, oldest first
    qLog,           \* what the 'failed' listener logged: <<job id, attempt>>
    qAcked,         \* events the relay has answered with ["OK", id, true]
    ipQueue,        \* SeedingQueue.queue of the in-process queue
    isProcessing,   \* SeedingQueue.isProcessing
    ipRunning,      \* reseedEvent calls of process() not yet settled
    ipImmediates,   \* setImmediate callbacks not yet run
    ipEnqueued,     \* the events passed to enqueue, in call order
    ipAttempts,     \* event -> reseedEvent calls made for it
    ipHanded,       \* the events passed to reseedEvent(event, false), in call order
    ipLog           \* events whose failure process() logged

VARIABLES
    \* ---- a FeedManager restarted against a BEP-44 store that rejects stale records ----
    sqNet,          \* whether dht.put can fail for other reasons than staleness
    sqSeq,          \* this.seq
    sqStored,       \* seq of the record stored under the manager's key; 0: none
    sqCall,         \* the publishFeedPointer call: [pc, remaining, put, putSeq]
    sqSync          \* the syncSequence call: [pc, got, before, returned]

VARIABLES
    \* ---- BEP-44 addressing: where PUTs are stored and where resolveFeedPointer looks ----
    adStore,        \* DHT targets that hold a mutable record
    adPuts,         \* history: number of publishFeedPointer calls stored
    adGet           \* the last resolveFeedPointer call: [impl, pubkey, target, found]

VARIABLES
    \* ---- FeedTracker.discover: its cache and its calls ----
    dcTransport,    \* what the TransportManager holds: [made, dht, nostr, announce]
    dcCache,        \* FeedTracker.cache: transportPubkey -> [has, magnet]
    dcCalls         \* the discover calls: their arguments, position and queries

VARIABLES
    \* ---- awaitEventWithTimeout: its subscription, timer and promise ----
    awPc,           \* idle, or called once subscribe() has returned
    awSub,          \* the subscription: [open] at the transport, [held] in `sub`
    awTimer,        \* the setTimeout timer: none, armed, cleared or fired
    awPromise,      \* the returned promise: [settled, value, resolves]
    awDelivered     \* history: the events the transport delivered, in order

VARIABLES
    \* ---- FeedIndex.loadFromBuffer on an index that holds items ----
    ldItems,        \* this.items
    ldUpdatedAt,    \* this.updatedAt
    ldLast          \* the last loadFromBuffer call: [impl, buffer, before]

VARIABLES
    \* ---- bootstrapWoTP2P on a WoTManager ----
    btFollows,      \* wotManager.follows of the bootstrapping client
    btLast          \* the last bootstrapWoTP2P call: [target, profile, outcome]

pubVars == <<pubPc, signedEvent, mediaFiles, relayStatus, seedPromises, pubResult>>

feedVars == <<seq, index, dht, swarm, calls, putLog, fedEvents>>

subVars == <<trackerCache, sub, subResult>>

reseedVars == <<wotManager, feedManager, magnetCache, tasks, lastReturn,
                returnedIds, completed>>

mediaVars == <<mediaPc, mediaTags, mediaBt, mediaHttp, mediaResult>>

dbVars == <<events, tagsTable, saves>>

relayVars == <<allowed, configured, seedingQueue, clients, outbox, lastEvent>>

wotVars == <<follows, maxDegree, net, lastInserts, wotSync, followsSub>>

indexVars == <<feedIndex, clock, added, dupAdded, lastAdd>>

pointerVars == <<ptrSeq, ptrStart, ptrNpk, ptrDht, ptrCall, ptrPublished, ptrResolved>>

packagerVars == <<pkEvent, pkBuffer, pkUnpacked, pkFilename>>

queueVars == <<qKind, qConcurrency, qJobs, qWait, qLog, qAcked, ipQueue, isProcessing, ipRunning, ipImmediates, ipEnqueued, ipAttempts, ipHanded, ipLog>>

seqVars == <<sqNet, sqSeq, sqStored, sqCall, sqSync>>

addrVars == <<adStore, adPuts, adGet>>

discVars == <<dcTransport, dcCache, dcCalls>>

awaitVars == <<awPc, awSub, awTimer, awPromise, awDelivered>>

loadVars == <<ldItems, ldUpdatedAt, ldLast>>

bootVars == <<btFollows, btLast>>

vars == <<pubVars, feedVars, subVars, reseedVars, mediaVars, dbVars,
          relayVars, wotVars, indexVars, pointerVars, packagerVars,
          queueVars, seqVars, addrVars, discVars, awaitVars, loadVars,
          bootVars>>

\* What the actions of one subsystem leave alone.
notPubVars == <<feedVars, subVars, reseedVars, mediaVars, dbVars, relayVars,
                wotVars, indexVars, pointerVars, packagerVars, queueVars,
                seqVars, addrVars, discVars, awaitVars, loadVars, bootVars>>

notFeedVars == <<pubVars, subVars, reseedVars, mediaVars, dbVars, relayVars,
                 wotVars, indexVars, pointerVars, packagerVars, queueVars,
                 seqVars, addrVars, discVars, awaitVars, loadVars, bootVars>>

notP2PVars == <<pubVars, reseedVars, mediaVars, dbVars, relayVars, wotVars,
                indexVars, pointerVars, packagerVars, queueVars, seqVars,
                addrVars, discVars, awaitVars, loadVars, bootVars>>

notReseedVars == <<pubVars, feedVars, subVars, mediaVars, dbVars, relayVars,
                   wotVars, indexVars, pointerVars, packagerVars, queueVars,
                   seqVars, addrVars, discVars, awaitVars, loadVars,
                   bootVars>>

notMediaVars == <<pubVars, feedVars, subVars, reseedVars, dbVars, relayVars,
                  wotVars, indexVars, pointerVars, packagerVars, queueVars,
                  seqVars, addrVars, discVars, awaitVars, loadVars, bootVars>>

notDbVars == <<pubVars, feedVars, subVars, reseedVars, mediaVars, relayVars,
               wotVars, indexVars, pointerVars, packagerVars, queueVars,
               seqVars, addrVars, discVars, awaitVars, loadVars, bootVars>>

\* (the relay writes to its database)
notRelayVars == <<pubVars, feedVars, subVars, reseedVars, mediaVars, wotVars,
                  indexVars, pointerVars, packagerVars, queueVars, seqVars,
                  addrVars, discVars, awaitVars, loadVars, bootVars>>

notWotVars == <<pubVars, feedVars, subVars, reseedVars, mediaVars, dbVars,
                relayVars, indexVars, pointerVars, packagerVars, queueVars,
                seqVars, addrVars, discVars, awaitVars, loadVars, bootVars>>

notIndexVars == <<pubVars, feedVars, subVars, reseedVars, mediaVars, dbVars,
                  relayVars, wotVars, pointerVars, packagerVars, queueVars,
                  seqVars, addrVars, discVars, awaitVars, loadVars, bootVars>>

notPointerVars == <<pubVars, feedVars, subVars, reseedVars, mediaVars,
                    dbVars, relayVars, wotVars, indexVars, packagerVars,
                    queueVars, seqVars, addrVars, discVars, awaitVars,
                    loadVars, bootVars>>

notPackagerVars == <<pubVars, feedVars, subVars, reseedVars, mediaVars,
                     dbVars, relayVars, wotVars, indexVars, pointerVars,
                     queueVars, seqVars, addrVars, discVars, awaitVars,
                     loadVars, bootVars>>

notQueueVars == <<pubVars, feedVars, subVars, reseedVars, mediaVars, dbVars,
                  relayVars, wotVars, indexVars, pointerVars, packagerVars,
                  seqVars, addrVars, discVars, awaitVars, loadVars, bootVars>>

notSeqVars == <<pubVars, feedVars, subVars, reseedVars, mediaVars, dbVars,
                relayVars, wotVars, indexVars, pointerVars, packagerVars,
                queueVars, addrVars, discVars, awaitVars, loadVars, bootVars>>

notAddrVars == <<pubVars, feedVars, subVars, reseedVars, mediaVars, dbVars,
                 relayVars, wotVars, indexVars, pointerVars, packagerVars,
                 queueVars, seqVars, discVars, awaitVars, loadVars, bootVars>>

notDiscVars == <<pubVars, feedVars, subVars, reseedVars, mediaVars, dbVars,
                 relayVars, wotVars, indexVars, pointerVars, packagerVars,
                 queueVars, seqVars, addrVars, awaitVars, loadVars, bootVars>>

notAwaitVars == <<pubVars, feedVars, subVars, reseedVars, mediaVars, dbVars,
                  relayVars, wotVars, indexVars, pointerVars, packagerVars,
                  queueVars, seqVars, addrVars, discVars, loadVars, bootVars>>

notLoadVars == <<pubVars, feedVars, subVars, reseedVars, mediaVars, dbVars,
                 relayVars, wotVars, indexVars, pointerVars, packagerVars,
                 queueVars, seqVars, addrVars, discVars, awaitVars, bootVars>>

notBootVars == <<pubVars, feedVars, subVars, reseedVars, mediaVars, dbVars,
                 relayVars, wotVars, indexVars, pointerVars, packagerVars,
                 queueVars, seqVars, addrVars, discVars, awaitVars, loadVars>>

None == "none"

\* Date.now() when a record is stamped (refreshFollows, publishFeedPointer).
Now == 1

(***************************************************************************)
(* Bounds of the model.                                                    *)
(***************************************************************************)
MaxMedia == 2
MaxCalls == 2        \* FeedManager calls that may overlap
MaxSeq == 4          \* no PUT is attempted once seq exceeds this
MaxFeedEvents == 2   \* distinct events offered to updateFeed
FeedIndexLimit == 2  \* options.indexLimit of the modelled FeedManager
MaxEventId == 2      \* event ids offered to reseedEvent
MaxTasks == 2        \* performSeed() runs that may overlap
MaxTags == 3         \* tags of an event handed to fetchMedia
MaxSaves == 3        \* saveEvent calls on one database
MaxRowId == 3        \* event ids offered to saveEvent
MaxDegreeArg == 3    \* degrees passed to addFollow: 0..MaxDegreeArg
MaxIndexId == 3      \* ids of the events added to a FeedIndex
MaxIndexTs == 2      \* their created_at: 1..MaxIndexTs
MaxClock == 2        \* the clock runs 1..MaxClock
InfoHashLen == 2     \* characters of an infoHash (stands for 40)
MaxPublished == 2    \* publishFeedPointer calls that resolve
MaxConns == 2        \* WebSocket connections to the relay
MaxTime == 2         \* created_at values offered to saveEvent
MagnetCacheSize == 1 \* capacity of the magnet cache (Limits.MAGNET_CACHE_SIZE
                     \* scaled down so that eviction happens)

(***************************************************************************)
(* TransportManager.publish(signedEvent, mediaFiles)                       *)
(***************************************************************************)

\* A media file argument: whether file.buffer and file.filename are truthy.
MediaFile == [buffer : BOOLEAN, filename : BOOLEAN]

MediaInputs == UNION {[1..n -> MediaFile] : n \in 0..MaxMedia}

\* The files publish() seeds: `if (file.buffer && file.filename)`.
SeedableFiles(files) ==
    {i \in 1..Len(files) : files[i].buffer /\ files[i].filename}

\* The magnets a settled seedPromises array yields, in call order:
\* seed 1 is the event, seed i+1 the i-th seedable media file.
MagnetOf(i) == <<"magnet", i>>

PubInit ==
    /\ pubPc = "idle"
    /\ signedEvent = [valid |-> TRUE]
    /\ mediaFiles = <<>>
    /\ relayStatus = None
    /\ seedPromises = <<>>
    /\ pubResult = [status |-> None]

\* Mutant: seeding is started together with the relay publish instead of
\* after it ("seed first" ordering).
PublishCall_SeedsEagerly ==
    /\ UNCHANGED notPubVars
    /\ pubPc = "idle"
    /\ \E v \in BOOLEAN, files \in MediaInputs :
          /\ signedEvent' = [valid |-> v]
          /\ mediaFiles' = files
          /\ seedPromises' =
                [i \in 1..(1 + Cardinality(SeedableFiles(files))) |-> "pending"]
    /\ pubPc' = "relay"
    /\ relayStatus' = None
    /\ pubResult' = [status |-> None]

\* publish() is called: it runs up to `await this.transport.nostr.publish`.
PublishCall ==
    /\ UNCHANGED notPubVars
    /\ pubPc = "idle"
    /\ \E v \in BOOLEAN, files \in MediaInputs :
          /\ signedEvent' = [valid |-> v]
          /\ mediaFiles' = files
    /\ pubPc' = "relay"
    /\ relayStatus' = None
    /\ seedPromises' = <<>>
    /\ pubResult' = [status |-> None]

\* nostr.publish rejected: the catch block throws TransportError(.., "nostr").
PublishRelayFails ==
    /\ UNCHANGED notPubVars
    /\ pubPc = "relay"
    /\ relayStatus' = "err"
    /\ pubPc' = "rejected"
    /\ pubResult' = [status |-> "rejected", error |-> "TransportError",
                     transportType |-> "nostr"]
    /\ UNCHANGED <<signedEvent, mediaFiles, seedPromises>>

\* nostr.publish resolved: package the event, then start every seed
\* (bt.publish is called for the event and each seedable media file before
\* the first await), and wait on Promise.all.
PublishRelayOk ==
    /\ UNCHANGED notPubVars
    /\ pubPc = "relay"
    /\ relayStatus' = "ok"
    /\ IF signedEvent.valid
          THEN /\ seedPromises' =
                     [i \in 1..(1 + Cardinality(SeedableFiles(mediaFiles)))
                         |-> "pending"]
               /\ pubPc' = "seeding"
               /\ pubResult' = pubResult
          ELSE \* packager.package throws ValidationError
               /\ seedPromises' = seedPromises
               /\ pubPc' = "rejected"
               /\ pubResult' = [status |-> "rejected", error |-> "ValidationError",
                                transportType |-> None]
    /\ UNCHANGED <<signedEvent, mediaFiles>>

\* One bt.publish promise settles (the swarm is the environment).
SeedSettles ==
    /\ UNCHANGED notPubVars
    /\ \E i \in 1..Len(seedPromises), r \in {"ok", "err"} :
          /\ seedPromises[i] = "pending"
          /\ seedPromises' = [seedPromises EXCEPT ![i] = r]
    /\ UNCHANGED <<pubPc, signedEvent, mediaFiles, relayStatus, pubResult>>

\* Mutant: Promise.allSettled instead of Promise.all, the result carrying
\* the magnets of the seeds that were fulfilled.
PublishAwaitAll_AllSettled ==
    /\ UNCHANGED notPubVars
    /\ pubPc = "seeding"
    /\ \A i \in 1..Len(seedPromises) : seedPromises[i] # "pending"
    /\ pubPc' = "returned"
    /\ pubResult' =
          [status |-> "returned",
           magnetUri |-> IF seedPromises[1] = "ok" THEN MagnetOf(1) ELSE <<>>,
           mediaMagnets |->
              SelectSeq([i \in 1..(Len(seedPromises) - 1) |-> i + 1],
                        LAMBDA j : seedPromises[j] = "ok"),
           relayStatus |-> relayStatus]
    /\ UNCHANGED <<signedEvent, mediaFiles, relayStatus, seedPromises>>

\* `await Promise.all(seedPromises)`: rejects as soon as one seed has
\* rejected, resolves once all have resolved.
PublishAwaitAll ==
    /\ UNCHANGED notPubVars
    /\ pubPc = "seeding"
    /\ \/ /\ \E i \in 1..Len(seedPromises) : seedPromises[i] = "err"
          /\ pubPc' = "rejected"
          /\ pubResult' = [status |-> "rejected", error |-> "Error",
                           transportType |-> None]
       \/ /\ \A i \in 1..Len(seedPromises) : seedPromises[i] = "ok"
          /\ pubPc' = "returned"
          /\ pubResult' =
                [status |-> "returned",
                 magnetUri |-> MagnetOf(1),
                 mediaMagnets |-> [i \in 1..(Len(seedPromises) - 1)
                                      |-> MagnetOf(i + 1)],
                 relayStatus |-> relayStatus]
    /\ UNCHANGED <<signedEvent, mediaFiles, relayStatus, seedPromises>>

\* The caller has its answer; the manager is ready for the next publish().
\* (A new TransportManager.publish call shares no state with the last one.)
PublishDone ==
    /\ UNCHANGED notPubVars
    /\ pubPc \in {"returned", "rejected"}
    /\ \A i \in 1..Len(seedPromises) : seedPromises[i] # "pending"
    /\ pubPc' = "idle"
    /\ UNCHANGED <<signedEvent, mediaFiles, relayStatus, seedPromises, pubResult>>

PubNext ==
    \/ PublishCall
    \/ PublishRelayFails
    \/ PublishRelayOk
    \/ SeedSettles
    \/ PublishAwaitAll
    \/ PublishDone

(***************************************************************************)
(* FeedIndex                                                               *)
(***************************************************************************)

\* this.items.sort((a, b) => b.ts - a.ts): a stable sort, ts descending.
\* InsertByTs puts item after every element whose ts is not smaller.
RECURSIVE InsertByTs(_, _)
InsertByTs(sorted, item) ==
    IF sorted = <<>> THEN <<item>>
    ELSE IF Head(sorted).ts >= item.ts
            THEN <<Head(sorted)>> \o InsertByTs(Tail(sorted), item)
            ELSE <<item>> \o sorted

RECURSIVE SortByTsDesc(_)
SortByTsDesc(items) ==
    IF items = <<>> THEN <<>>
    ELSE InsertByTs(SortByTsDesc(SubSeq(items, 1, Len(items) - 1)),
                    items[Len(items)])

ItemIds(items) == {items[i].id : i \in 1..Len(items)}

\* An add that puts the item in front and trims, without sorting.
FeedIndexAdd_NoSort(items, event, magnetUri, limit) ==
    IF event.id \in ItemIds(items) THEN items
    ELSE LET item == [id |-> event.id, magnet |-> magnetUri,
                      ts |-> event.created_at, kind |-> event.kind]
             unsorted == <<item>> \o items
         IN  IF Len(unsorted) > limit THEN SubSeq(unsorted, 1, limit)
             ELSE unsorted

\* An add that sorts and never trims.
FeedIndexAdd_NoTrim(items, event, magnetUri, limit) ==
    IF event.id \in ItemIds(items) THEN items
    ELSE SortByTsDesc(<<[id |-> event.id, magnet |-> magnetUri,
                         ts |-> event.created_at, kind |-> event.kind]>>
                      \o items)

\* FeedIndex.add(event, magnetUri) on an index holding `items`.
FeedIndexAdd(items, event, magnetUri, limit) ==
    IF event.id \in ItemIds(items) THEN items
    ELSE LET item == [id |-> event.id, magnet |-> magnetUri,
                      ts |-> event.created_at, kind |-> event.kind]
             sorted == SortByTsDesc(<<item>> \o items)
         IN  IF Len(sorted) > limit THEN SubSeq(sorted, 1, limit) ELSE sorted

\* An add that stamps updatedAt on every call.
FeedIndexUpdatedAt_Always(items, event, updatedAt, now) == now

\* this.updatedAt after add(event, ...) at time `now`.
FeedIndexUpdatedAt(items, event, updatedAt, now) ==
    IF event.id \in ItemIds(items) THEN updatedAt ELSE now

\* The events given to a FeedIndex.
IndexEvents ==
    {[id |-> i, created_at |-> ts, kind |-> 1] :
        i \in 1..MaxIndexId, ts \in 1..MaxIndexTs}

IndexMagnets == {"magnet:a", "magnet:b"}

NoAdd == [event |-> [id |-> 0, created_at |-> 0, kind |-> 0],
          magnet |-> "", items |-> <<>>, updatedAt |-> 0]

IndexInit ==
    /\ feedIndex = [limit |-> FeedIndexLimit, items |-> <<>>, updatedAt |-> 0]
    /\ clock = 1
    /\ added = {}
    /\ dupAdded = FALSE
    /\ lastAdd = NoAdd

\* new FeedIndex(limit)
NewFeedIndex ==
    /\ UNCHANGED notIndexVars
    /\ \E limit \in 1..FeedIndexLimit :
          feedIndex' = [limit |-> limit, items |-> <<>>, updatedAt |-> 0]
    /\ added' = {}
    /\ dupAdded' = FALSE
    /\ lastAdd' = NoAdd
    /\ UNCHANGED clock

\* Time passes.
Tick ==
    /\ UNCHANGED notIndexVars
    /\ clock < MaxClock
    /\ clock' = clock + 1
    /\ UNCHANGED <<feedIndex, added, dupAdded, lastAdd>>

\* add(event, magnetUri)
IndexAdd ==
    /\ UNCHANGED notIndexVars
    /\ \E event \in IndexEvents, magnetUri \in IndexMagnets :
          /\ feedIndex' =
                [feedIndex EXCEPT
                    !.items = FeedIndexAdd(feedIndex.items, event, magnetUri,
                                           feedIndex.limit),
                    !.updatedAt = FeedIndexUpdatedAt(feedIndex.items, event,
                                                     feedIndex.updatedAt,
                                                     clock)]
          /\ added' = added \cup {event}
          /\ dupAdded' = (dupAdded \/ \E e \in added : e.id = event.id)
          /\ lastAdd' = [event |-> event, magnet |-> magnetUri,
                         items |-> feedIndex.items,
                         updatedAt |-> feedIndex.updatedAt]
    /\ UNCHANGED clock

IndexNext ==
    \/ NewFeedIndex
    \/ Tick
    \/ IndexAdd

(***************************************************************************)
(* FeedManager: updateFeed, publishFeedPointer, syncSequence               *)
(***************************************************************************)

CallIds == 1..MaxCalls

\* The events a caller may hand to updateFeed, and their magnets.
FeedEventSet ==
    {[id |-> i, created_at |-> i, kind |-> 1] : i \in 1..MaxFeedEvents}

EventMagnet(event) == <<"magnet", event.id>>

DefaultRetries == 3

\* The infoHash handed to a direct publishFeedPointer call: some valid
\* 40-character hex string that names no seeded index.
DirectInfoHash == <<>>

NoRecord == [found |-> FALSE]

IdleCall == [pc |-> "idle", op |-> None, event |-> 0,
             ih |-> <<>>, remaining |-> 0, put |-> None, got |-> NoRecord]

\* putLog after one more successful PUT carrying seq n: the last two are
\* kept (earlier ones were compared when they were the last two).
LogPut(log, n) == IF log = <<>> THEN <<n>> ELSE <<log[Len(log)], n>>

FeedInit ==
    /\ seq = 1
    /\ index = <<>>
    /\ dht = NoRecord
    /\ swarm = {}
    /\ calls = [c \in CallIds |-> IdleCall]
    /\ putLog = <<>>
    /\ fedEvents = {}

\* One run of `attempt(remaining)`: opts.seq = this.seq++, then dht.put.
\* The DHT stores the record or fails the PUT; its callback runs later.
Attempt(c, op, event, ih, remaining) ==
    /\ seq <= MaxSeq
    /\ seq' = seq + 1
    /\ \E outcome \in {"ok", "err"} :
          /\ IF outcome = "ok"
                THEN /\ dht' = [found |-> TRUE, seq |-> seq, ih |-> ih]
                     /\ putLog' = LogPut(putLog, seq)
                ELSE /\ dht' = dht
                     /\ putLog' = putLog
          /\ calls' = [calls EXCEPT ![c] =
                          [IdleCall EXCEPT !.pc = "put", !.op = op,
                                           !.event = event, !.ih = ih,
                                           !.remaining = remaining,
                                           !.put = outcome]]

\* updateFeed(event, magnetUri) up to `await this.bt.publish`.
UpdateFeedCall(c) ==
    /\ UNCHANGED notFeedVars
    /\ calls[c].pc = "idle"
    /\ \E e \in FeedEventSet :
          LET items == FeedIndexAdd(index, e, EventMagnet(e), FeedIndexLimit)
          IN  /\ index' = items
              /\ calls' = [calls EXCEPT ![c] =
                              [IdleCall EXCEPT !.pc = "seed",
                                               !.op = "updateFeed",
                                               !.event = e.id, !.ih = items]]
    /\ UNCHANGED <<seq, dht, swarm, putLog, fedEvents>>

\* bt.publish of index.json settles; on success publishFeedPointer runs up
\* to its first dht.put.
UpdateFeedSeeded(c) ==
    /\ UNCHANGED notFeedVars
    /\ calls[c].pc = "seed"
    /\ \/ /\ swarm' = swarm \cup {calls[c].ih}
          /\ Attempt(c, "updateFeed", calls[c].event, calls[c].ih,
                     DefaultRetries)
          /\ UNCHANGED <<index, fedEvents>>
       \/ /\ calls' = [calls EXCEPT ![c] = IdleCall]
          /\ UNCHANGED <<seq, index, dht, swarm, putLog, fedEvents>>

\* publishFeedPointer(infoHash, retries) called directly.
PublishFeedPointerCall(c) ==
    /\ UNCHANGED notFeedVars
    /\ calls[c].pc = "idle"
    /\ \E retries \in {0, DefaultRetries} :
          Attempt(c, "publishFeedPointer", 0, DirectInfoHash, retries)
    /\ UNCHANGED <<index, swarm, fedEvents>>

\* The dht.put callback.
PutCallback(c) ==
    /\ UNCHANGED notFeedVars
    /\ calls[c].pc = "put"
    /\ IF calls[c].put = "ok"
          THEN /\ calls' = [calls EXCEPT ![c] = IdleCall]
               /\ fedEvents' = IF calls[c].op = "updateFeed"
                                   THEN fedEvents \cup {calls[c].event}
                                   ELSE fedEvents
          ELSE /\ fedEvents' = fedEvents
               /\ IF calls[c].remaining > 0
                     THEN calls' = [calls EXCEPT
                                       ![c].pc = "wait",
                                       ![c].remaining = calls[c].remaining - 1,
                                       ![c].put = None]
                     ELSE calls' = [calls EXCEPT ![c] = IdleCall]
    /\ UNCHANGED <<seq, index, dht, swarm, putLog>>

\* setTimeout(() => resolve(attempt(remaining - 1)), 2000) fires.
RetryTimer(c) ==
    /\ UNCHANGED notFeedVars
    /\ calls[c].pc = "wait"
    /\ Attempt(c, calls[c].op, calls[c].event, calls[c].ih, calls[c].remaining)
    /\ UNCHANGED <<index, swarm, fedEvents>>

\* syncSequence() up to `await this.resolveFeedPointer(pubkey)`: the DHT
\* answers the GET with the stored record, with nothing, or with an error.
SyncSequenceCall(c) ==
    /\ UNCHANGED notFeedVars
    /\ calls[c].pc = "idle"
    /\ \E answer \in {dht, NoRecord} :
          calls' = [calls EXCEPT ![c] =
                       [IdleCall EXCEPT !.pc = "sync", !.op = "syncSequence",
                                        !.got = answer]]
    /\ UNCHANGED <<seq, index, dht, swarm, putLog, fedEvents>>

\* syncSequence() resumes: `if (record && record.seq !== undefined)
\* this.seq = record.seq + 1`.
SyncSequenceResume(c) ==
    /\ UNCHANGED notFeedVars
    /\ calls[c].pc = "sync"
    /\ seq' = IF calls[c].got.found THEN calls[c].got.seq + 1 ELSE seq
    /\ calls' = [calls EXCEPT ![c] = IdleCall]
    /\ UNCHANGED <<index, dht, swarm, putLog, fedEvents>>

FeedNext ==
    \E c \in CallIds :
        \/ UpdateFeedCall(c)
        \/ UpdateFeedSeeded(c)
        \/ PublishFeedPointerCall(c)
        \/ PutCallback(c)
        \/ RetryTimer(c)
        \/ SyncSequenceCall(c)
        \/ SyncSequenceResume(c)

(***************************************************************************)
(* FeedManager.publishFeedPointer and resolveFeedPointer on the manager's  *)
(* own key, with the hex conversions of the record                         *)
(***************************************************************************)

\* The hex characters used, and one that is not hex.
HexChars == {"1", "d", "D"}

OtherChars == {"g"}

\* Strings are sequences of characters.
StringsOfLen(chars, n) == [1..n -> chars]

\* The infoHash arguments tried: right length over any characters, and
\* hex strings one character short.
InfoHashInputs ==
    StringsOfLen(HexChars \cup OtherChars, InfoHashLen)
       \cup StringsOfLen(HexChars, InfoHashLen - 1)

\* /^[a-fA-F0-9]{40}$/.test(infoHash)
IsInfoHash(str) ==
    Len(str) = InfoHashLen /\ \A i \in 1..Len(str) : str[i] \in HexChars

HexValue(ch) == CASE ch = "1" -> 1 [] ch = "d" -> 13 [] ch = "D" -> 13

HexDigit(v) == CASE v = 1 -> "1" [] v = 13 -> "d"

\* Buffer.from(str, 'hex'), as the values of the hex digits.
BufferFromHex(str) == [i \in 1..Len(str) |-> HexValue(str[i])]

\* A hex encoding in upper case.
BufferToHex_Upper(buf) ==
    [i \in 1..Len(buf) |-> IF buf[i] = 13 THEN "D" ELSE HexDigit(buf[i])]

\* buf.toString('hex')
BufferToHex(buf) == [i \in 1..Len(buf) |-> HexDigit(buf[i])]

NostrPubkeys == {<<>>, <<"D", "1">>}

\* options.initialSeq: 0 stands for an option not given.
InitialSeqs == {0, 1, 2}

NoPointer == [found |-> FALSE]

NoPtrCall == [pc |-> "idle", ih |-> <<>>, remaining |-> 0, put |-> None,
              putSeq |-> 0, failed |-> 0]

NotResolved == [status |-> "none"]

PointerInit ==
    /\ ptrSeq = 1
    /\ ptrStart = 1
    /\ ptrNpk = <<>>
    /\ ptrDht = NoPointer
    /\ ptrCall = NoPtrCall
    /\ ptrPublished = 0
    /\ ptrResolved = NotResolved

\* new FeedManager(bt, identity, options) for an identity that has no
\* record on the DHT: this.seq = options.initialSeq || 1.
NewFeedManager ==
    /\ UNCHANGED notPointerVars
    /\ \E initialSeq \in InitialSeqs :
          LET start == IF initialSeq = 0 THEN 1 ELSE initialSeq
          IN  ptrSeq' = start /\ ptrStart' = start
    /\ \E npk \in NostrPubkeys : ptrNpk' = npk
    /\ ptrDht' = NoPointer
    /\ ptrCall' = NoPtrCall
    /\ ptrPublished' = 0
    /\ ptrResolved' = NotResolved

\* One run of attempt(remaining) of this call: the record is built with
\* seq: this.seq++ and handed to dht.put, which stores it or fails.
PtrAttempt(ih, remaining, failed) ==
    /\ ptrSeq' = ptrSeq + 1
    /\ \E outcome \in {"ok", "err"} :
          /\ ptrDht' =
                IF outcome = "ok"
                   THEN [found |-> TRUE, seq |-> ptrSeq,
                         ih |-> BufferFromHex(ih), ts |-> Now,
                         npk |-> IF ptrNpk # <<>>
                                    THEN [defined |-> TRUE,
                                          buf |-> BufferFromHex(ptrNpk)]
                                    ELSE [defined |-> FALSE, buf |-> <<>>]]
                   ELSE ptrDht
          /\ ptrCall' = [pc |-> "put", ih |-> ih, remaining |-> remaining,
                         put |-> outcome, putSeq |-> ptrSeq,
                         failed |-> failed]

\* publishFeedPointer(infoHash, retries) up to its first dht.put, or its
\* throw on an invalid infoHash.
PublishPointerCall ==
    /\ UNCHANGED notPointerVars
    /\ ptrCall.pc \in {"idle", "resolved", "rejected", "threw"}
    /\ ptrPublished < MaxPublished
    /\ ptrSeq <= MaxSeq
    /\ \E ih \in InfoHashInputs, retries \in {0, DefaultRetries} :
          IF IsInfoHash(ih)
             THEN PtrAttempt(ih, retries, 0)
             ELSE /\ ptrCall' = [NoPtrCall EXCEPT !.pc = "threw", !.ih = ih]
                  /\ UNCHANGED <<ptrSeq, ptrDht>>
    /\ ptrResolved' = NotResolved
    /\ UNCHANGED <<ptrStart, ptrNpk, ptrPublished>>

\* The dht.put callback of the call.
PtrPutCallback ==
    /\ UNCHANGED notPointerVars
    /\ ptrCall.pc = "put"
    /\ IF ptrCall.put = "ok"
          THEN /\ ptrCall' = [ptrCall EXCEPT !.pc = "resolved"]
               /\ ptrPublished' = ptrPublished + 1
          ELSE /\ ptrCall' = IF ptrCall.remaining > 0
                                THEN [ptrCall EXCEPT !.pc = "wait"]
                                ELSE [ptrCall EXCEPT !.pc = "rejected"]
               /\ ptrPublished' = ptrPublished
    /\ UNCHANGED <<ptrSeq, ptrStart, ptrNpk, ptrDht, ptrResolved>>

\* The 2 s timer of a failed attempt fires: attempt(remaining - 1).
PtrRetryTimer ==
    /\ UNCHANGED notPointerVars
    /\ ptrCall.pc = "wait"
    /\ ptrSeq <= MaxSeq + DefaultRetries
    /\ PtrAttempt(ptrCall.ih, ptrCall.remaining - 1, ptrCall.failed + 1)
    /\ UNCHANGED <<ptrStart, ptrNpk, ptrPublished, ptrResolved>>

\* resolveFeedPointer(own public key): the DHT answers the GET with the
\* stored record, with nothing when none is stored, or with an error.
ResolveFeedPointer ==
    /\ UNCHANGED notPointerVars
    /\ \E answer \in {"record", "error"} :
          ptrResolved' =
             IF answer = "error" THEN [status |-> "rejected"]
             ELSE IF ~ptrDht.found THEN [status |-> "null"]
             ELSE [status |-> "record",
                   infoHash |-> BufferToHex(ptrDht.ih),
                   ts |-> ptrDht.ts,
                   seq |-> ptrDht.seq,
                   nostrPubkey |->
                      IF ptrDht.npk.defined
                         THEN [null |-> FALSE,
                               hex |-> BufferToHex(ptrDht.npk.buf)]
                         ELSE [null |-> TRUE, hex |-> <<>>]]
    /\ UNCHANGED <<ptrSeq, ptrStart, ptrNpk, ptrDht, ptrCall, ptrPublished>>

PointerNext ==
    \/ NewFeedManager
    \/ PublishPointerCall
    \/ PtrPutCallback
    \/ PtrRetryTimer
    \/ ResolveFeedPointer

(***************************************************************************)
(* EventPackager: package, unpack, getFilename                             *)
(***************************************************************************)

\* An object property: present with a value, or missing.
Missing(default) == [has |-> FALSE, v |-> default]

Prop(value) == [has |-> TRUE, v |-> value]

OptionalOf(values, default) == {Missing(default)} \cup {Prop(x) : x \in values}

\* The objects handed to package: the seven event fields, each present or
\* not, and a property the schema does not name.
PackagerEvents ==
    [id : OptionalOf({"", "e1"}, ""),
     pubkey : OptionalOf({"", "pk"}, ""),
     created_at : OptionalOf({5}, 0),
     kind : OptionalOf({1}, 0),
     tags : OptionalOf({<<>>, << <<"p", "x">> >>}, <<>>),
     content : OptionalOf({"", "hi"}, ""),
     sig : OptionalOf({"", "s"}, ""),
     extra : OptionalOf({"x"}, "")]

SchemaKeys ==
    <<"id", "pubkey", "created_at", "kind", "tags", "content", "sig">>

\* EventSchema accepts the object: id a non-empty string; pubkey and sig
\* non-empty when present.
SchemaAccepts(obj) ==
    /\ obj.id.has /\ obj.id.v # ""
    /\ obj.pubkey.has => obj.pubkey.v # ""
    /\ obj.sig.has => obj.sig.v # ""

\* A parse that also drops the signature.
SchemaParse_DropsSig(obj) ==
    [obj EXCEPT !.extra = Missing(""), !.sig = Missing("")]

\* EventSchema.parse(obj) of an accepted object: properties the schema
\* does not name are dropped.
SchemaParse(obj) == [obj EXCEPT !.extra = Missing("")]

\* A JSON value: a string, a number or an array of arrays of strings.
JsonString(str) == [t |-> "string", s |-> str, n |-> 0, a |-> <<>>]

JsonNumber(num) == [t |-> "number", s |-> "", n |-> num, a |-> <<>>]

JsonArray(arr) == [t |-> "array", s |-> "", n |-> 0, a |-> arr]

JsonOf(key, value) ==
    IF key \in {"created_at", "kind"} THEN JsonNumber(value)
    ELSE IF key = "tags" THEN JsonArray(value)
    ELSE JsonString(value)

\* JSON.stringify(obj): one member per present property, in order.
RECURSIVE Stringify(_, _)
Stringify(obj, keys) ==
    IF keys = <<>> THEN <<>>
    ELSE LET key == Head(keys)
         IN  (IF obj[key].has
                 THEN <<[k |-> key, v |-> JsonOf(key, obj[key].v)]>>
                 ELSE <<>>)
             \o Stringify(obj, Tail(keys))

ValueOf(json) ==
    IF json.t = "number" THEN json.n
    ELSE IF json.t = "array" THEN json.a
    ELSE json.s

DefaultOf(key) ==
    IF key \in {"created_at", "kind"} THEN 0
    ELSE IF key = "tags" THEN <<>>
    ELSE ""

\* JSON.parse(text): the object with the members of the text.
JsonParse(members) ==
    [key \in {"id", "pubkey", "created_at", "kind", "tags", "content", "sig",
              "extra"} |->
        IF \E i \in 1..Len(members) : members[i].k = key
           THEN LET i == CHOOSE j \in 1..Len(members) : members[j].k = key
                IN  Prop(ValueOf(members[i].v))
           ELSE Missing(DefaultOf(key))]

NotJson == <<[k |-> "", v |-> JsonString("not json")]>>

\* package(event)
Package(event) ==
    IF SchemaAccepts(event)
       THEN [threw |-> FALSE,
             data |-> Stringify(SchemaParse(event),
                                SchemaKeys \o <<"extra">>)]
       ELSE [threw |-> TRUE, data |-> <<>>]

\* unpack(data); the signature check only logs.
Unpack(data) ==
    LET obj == JsonParse(data)
    IN  IF data # NotJson /\ SchemaAccepts(obj)
           THEN [called |-> TRUE, garbage |-> FALSE, threw |-> FALSE,
                 event |-> SchemaParse(obj)]
           ELSE [called |-> TRUE, garbage |-> data = NotJson, threw |-> TRUE,
                 event |-> JsonParse(<<>>)]

\* getFilename(event)
GetFilename(event) ==
    (IF event.id.has THEN event.id.v ELSE "undefined") \o ".json"

NotCalled == [called |-> FALSE, garbage |-> FALSE, threw |-> FALSE,
              event |-> JsonParse(<<>>)]

PackagerInit ==
    /\ pkEvent = JsonParse(<<>>)
    /\ pkBuffer = [threw |-> TRUE, data |-> <<>>]
    /\ pkUnpacked = NotCalled
    /\ pkFilename = ""

\* package(event) and getFilename(event) for some object.
PackageCall ==
    /\ UNCHANGED notPackagerVars
    /\ pkUnpacked.called \/ pkBuffer.threw
    /\ \E event \in PackagerEvents :
          /\ pkEvent' = event
          /\ pkBuffer' = Package(event)
          /\ pkFilename' = GetFilename(event)
    /\ pkUnpacked' = NotCalled

\* unpack of what package returned.
UnpackCall ==
    /\ UNCHANGED notPackagerVars
    /\ ~pkBuffer.threw
    /\ ~pkUnpacked.called
    /\ pkUnpacked' = Unpack(pkBuffer.data)
    /\ UNCHANGED <<pkEvent, pkBuffer, pkFilename>>

\* unpack of data that is not JSON.
UnpackGarbage ==
    /\ UNCHANGED notPackagerVars
    /\ ~pkUnpacked.called
    /\ pkUnpacked' = Unpack(NotJson)
    /\ UNCHANGED <<pkEvent, pkBuffer, pkFilename>>

PackagerNext ==
    \/ PackageCall
    \/ UnpackCall
    \/ UnpackGarbage

(***************************************************************************)
(* Nostr events, tags and the LRU magnet cache                             *)
(***************************************************************************)

\* JavaScript null / undefined, and what `if (v)` accepts of a string.
Null == "<null>"

Truthy(v) == v # Null /\ v # ""

\* findTagValue(event, key): the value of the first tag <<key, value>> whose
\* key matches, null when there is none.
RECURSIVE FindTagValue(_, _)
FindTagValue(tags, key) ==
    IF tags = <<>> THEN Null
    ELSE IF Head(tags)[1] = key THEN Head(tags)[2]
    ELSE FindTagValue(Tail(tags), key)

EventIds == 1..MaxEventId

\* The author of each event id (ids are content hashes: one author each).
AuthorOf(id) == IF id % 2 = 0 THEN "bob" ELSE "alice"

Pubkeys == {"alice", "bob"}

\* Tag lists that matter to reseedEvent: no bt tag, a bt tag with a magnet,
\* a bt tag with an empty value, a bt tag behind another tag.
BtTagLists ==
    { <<>>,
      << <<"bt", "magnet:tag">> >>,
      << <<"bt", "">> >>,
      << <<"p", "alice">>, <<"bt", "magnet:tag">> >> }

\* The events handed to reseedEvent / handleIncomingEvent. id 0 stands for
\* an event without an id; valid says whether EventSchema.parse accepts it.
ReseedEvents ==
    {[id |-> i, pubkey |-> AuthorOf(i), tags |-> t, valid |-> v] :
        i \in 0..MaxEventId, t \in BtTagLists, v \in BOOLEAN}

\* The magnet bt.publish yields for the packaged event.
SeedMagnet(id) == "magnet:e" \o ToString(id)

CacheIds(cache) == {cache[i].id : i \in 1..Len(cache)}

CacheValue(cache, id) ==
    cache[CHOOSE i \in 1..Len(cache) : cache[i].id = id].magnet

CacheWithout(cache, id) == SelectSeq(cache, LAMBDA e : e.id # id)

\* LRUCache.get: the entry becomes the most recently used.
CacheGet(cache, id) ==
    Append(CacheWithout(cache, id), [id |-> id, magnet |-> CacheValue(cache, id)])

\* Mutant: the cache write is lost.
CacheSet_Drop(cache, id, m) == cache

\* LRUCache.set with max = MagnetCacheSize: the least recently used entry
\* is evicted when a new key would exceed the capacity.
CacheSet(cache, id, m) ==
    LET rest == CacheWithout(cache, id)
        kept == IF Len(rest) >= MagnetCacheSize THEN Tail(rest) ELSE rest
    IN  Append(kept, [id |-> id, magnet |-> m])

(***************************************************************************)
(* TransportManager: reseedEvent, handleIncomingEvent                      *)
(***************************************************************************)

TaskIds == 1..MaxTasks

IdleTask == [pc |-> "idle", id |-> 0, background |-> FALSE, origin |-> None,
             priorReturned |-> FALSE, priorCompleted |-> ""]

\* What a call settles with: a magnet, "queued:{id}", null, or an error.
Result(kind, id, magnet) == [kind |-> kind, id |-> id, magnet |-> magnet]

NoReturn == [op |-> None, id |-> 0, background |-> FALSE, result |-> Result(None, 0, ""),
             seeded |-> FALSE, waited |-> FALSE, cached |-> FALSE,
             btTagged |-> FALSE, priorReturned |-> FALSE,
             priorCompleted |-> ""]

ReseedInit ==
    /\ wotManager = [present |-> FALSE, follows |-> {}]
    /\ feedManager = FALSE
    /\ magnetCache = <<>>
    /\ tasks = [t \in TaskIds |-> IdleTask]
    /\ lastReturn = NoReturn
    /\ returnedIds = {}
    /\ completed = [i \in EventIds |-> ""]

\* history: `completed` after the cache went from `before` to `after` by
\* storing magnet m for id; evicted ids are forgotten.
CompletedAfter(comp, before, after, id, m) ==
    [i \in EventIds |->
        IF i = id THEN m
        ELSE IF i \in CacheIds(before) \ CacheIds(after) THEN ""
        ELSE comp[i]]

\* new TransportManager(transport, options): with or without a WoTManager
\* and a FeedManager. The caches start empty.
NewTransportManager ==
    /\ UNCHANGED notReseedVars
    /\ \A t \in TaskIds : tasks[t].pc = "idle"
    /\ \E w \in BOOLEAN, fm \in BOOLEAN :
          /\ wotManager' = [present |-> w, follows |-> {}]
          /\ feedManager' = fm
    /\ magnetCache' = <<>>
    /\ tasks' = [t \in TaskIds |-> IdleTask]
    /\ lastReturn' = NoReturn
    /\ returnedIds' = {}
    /\ completed' = [i \in EventIds |-> ""]

\* WoTManager.addFollow(pubkey) / a `p` tag read by _parseContactList.
AddFollow(pk) ==
    /\ UNCHANGED notReseedVars
    /\ wotManager.present
    /\ pk \notin wotManager.follows
    /\ wotManager' = [wotManager EXCEPT !.follows = @ \cup {pk}]
    /\ UNCHANGED <<feedManager, magnetCache, tasks, lastReturn, returnedIds,
                   completed>>

\* The slot a new performSeed() run would take: the first idle one.
FreeTask(t) ==
    /\ tasks[t].pc = "idle"
    /\ \A u \in TaskIds : u < t => tasks[u].pc # "idle"

\* Which way reseedEvent(event, ..) goes before its first await.
ReseedPath(event) ==
    IF event.id = 0 THEN "guard"
    ELSE IF event.id \in CacheIds(magnetCache) THEN "hit"
    ELSE IF Truthy(FindTagValue(event.tags, "bt")) THEN "tag"
    ELSE IF ~event.valid THEN "invalid"
    ELSE "seed"

\* What reseedEvent(event, background) settles with before any seed has
\* settled; kind None: the caller is still waiting for performSeed().
ImmediateResult(event, background) ==
    LET path == ReseedPath(event)
    IN  CASE path = "guard" -> Result("TransportError", 0, "")
          [] path = "hit" ->
                Result("magnet", event.id, CacheValue(magnetCache, event.id))
          [] path = "tag" ->
                Result("magnet", event.id, FindTagValue(event.tags, "bt"))
          [] path = "invalid" ->
                IF background THEN Result("queued", event.id, "")
                ELSE Result("ValidationError", event.id, "")
          [] OTHER ->
                IF background THEN Result("queued", event.id, "")
                ELSE Result(None, event.id, "")

\* reseedEvent(event, background) up to its return or its first await.
Reseed(t, event, background, origin) ==
    LET path == ReseedPath(event)
        res == ImmediateResult(event, background)
        id == event.id
        prior == IF id = 0 THEN "" ELSE completed[id]
    IN  /\ FreeTask(t)
        /\ magnetCache' =
              CASE path = "hit" -> CacheGet(magnetCache, id)
                [] path = "tag" ->
                      CacheSet(magnetCache, id, FindTagValue(event.tags, "bt"))
                [] OTHER -> magnetCache
        /\ completed' =
              IF path = "tag"
                 THEN CompletedAfter(completed, magnetCache, magnetCache', id,
                                     FindTagValue(event.tags, "bt"))
                 ELSE completed
        /\ tasks' =
              IF path = "seed"
                 THEN [tasks EXCEPT ![t] =
                          [pc |-> "seeding", id |-> id,
                           background |-> background, origin |-> origin,
                           priorReturned |-> id \in returnedIds,
                           priorCompleted |-> prior]]
                 ELSE tasks
        /\ IF res.kind = None
              THEN UNCHANGED <<lastReturn, returnedIds>>
              ELSE /\ lastReturn' =
                         [op |-> origin, id |-> id,
                          background |-> background, result |-> res,
                          seeded |-> path = "seed", waited |-> FALSE,
                          cached |-> path = "hit",
                          btTagged |-> Truthy(FindTagValue(event.tags, "bt")),
                          priorReturned |-> id \in returnedIds,
                          priorCompleted |-> prior]
                   /\ returnedIds' =
                         IF res.kind \in {"magnet", "queued"}
                            THEN returnedIds \cup {id} ELSE returnedIds

\* reseedEvent(event, background) called by the application.
ReseedEventCall(t) ==
    /\ UNCHANGED notReseedVars
    /\ \E event \in ReseedEvents, background \in BOOLEAN :
          Reseed(t, event, background, "reseedEvent")
    /\ UNCHANGED <<wotManager, feedManager>>

\* shouldSeed(event)
ShouldSeed_Always(event) == TRUE

ShouldSeed(event) ==
    IF ~wotManager.present THEN FALSE
    ELSE event.pubkey \in wotManager.follows

\* handleIncomingEvent(event): reseedEvent(event) in background mode when
\* shouldSeed, null otherwise.
HandleIncomingEvent(t) ==
    /\ UNCHANGED notReseedVars
    /\ \E event \in ReseedEvents :
          IF ShouldSeed(event)
             THEN Reseed(t, event, TRUE, "incoming")
             ELSE /\ FreeTask(t)
                  /\ lastReturn' =
                        [NoReturn EXCEPT !.op = "incoming", !.id = event.id,
                                         !.result =
                                             Result("null", event.id, "")]
                  /\ UNCHANGED <<magnetCache, tasks, returnedIds, completed>>
    /\ UNCHANGED <<wotManager, feedManager>>

\* Mutant: the outcome of a background performSeed() reaches the caller.
Finish_Propagates(t, res) ==
    /\ tasks' = [tasks EXCEPT ![t] = IdleTask]
    /\ lastReturn' =
          [op |-> tasks[t].origin, id |-> tasks[t].id,
           background |-> tasks[t].background, result |-> res,
           seeded |-> TRUE, waited |-> TRUE, cached |-> FALSE,
           btTagged |-> FALSE, priorReturned |-> tasks[t].priorReturned,
           priorCompleted |-> tasks[t].priorCompleted]
    /\ returnedIds' = returnedIds

\* performSeed() of task t ends with result res: an awaited caller gets it;
\* in background mode `.catch(() => {})` drops it.
Finish(t, res) ==
    /\ tasks' = [tasks EXCEPT ![t] = IdleTask]
    /\ IF tasks[t].background
          THEN UNCHANGED <<lastReturn, returnedIds>>
          ELSE /\ lastReturn' =
                     [op |-> tasks[t].origin, id |-> tasks[t].id,
                      background |-> FALSE, result |-> res,
                      seeded |-> TRUE, waited |-> TRUE, cached |-> FALSE,
                      btTagged |-> FALSE,
                      priorReturned |-> tasks[t].priorReturned,
                      priorCompleted |-> tasks[t].priorCompleted]
               /\ returnedIds' =
                     IF res.kind = "magnet"
                        THEN returnedIds \cup {tasks[t].id} ELSE returnedIds

\* `await this.transport.bt.publish(..)` in performSeed settles; on success
\* the magnet is cached and, with a FeedManager, updateFeed is awaited.
PerformSeedPublished(t) ==
    /\ UNCHANGED notReseedVars
    /\ tasks[t].pc = "seeding"
    /\ LET id == tasks[t].id
           m == SeedMagnet(id)
       IN  \/ /\ magnetCache' = CacheSet(magnetCache, id, m)
              /\ completed' =
                    CompletedAfter(completed, magnetCache, magnetCache', id, m)
              /\ IF feedManager
                    THEN /\ tasks' = [tasks EXCEPT ![t].pc = "feeding"]
                         /\ UNCHANGED <<lastReturn, returnedIds>>
                    ELSE Finish(t, Result("magnet", id, m))
           \/ /\ Finish(t, Result("Error", id, ""))
              /\ UNCHANGED <<magnetCache, completed>>
    /\ UNCHANGED <<wotManager, feedManager>>

\* `await this.feedManager.updateFeed(event, magnetUri)` in performSeed
\* settles (FeedNext is the model of what updateFeed itself does).
PerformSeedFeedUpdated(t) ==
    /\ UNCHANGED notReseedVars
    /\ tasks[t].pc = "feeding"
    /\ \/ Finish(t, Result("magnet", tasks[t].id, SeedMagnet(tasks[t].id)))
       \/ Finish(t, Result("Error", tasks[t].id, ""))
    /\ UNCHANGED <<wotManager, feedManager, magnetCache, completed>>

ReseedNext ==
    \/ NewTransportManager
    \/ \E pk \in Pubkeys : AddFollow(pk)
    \/ \E t \in TaskIds :
          \/ ReseedEventCall(t)
          \/ HandleIncomingEvent(t)
          \/ PerformSeedPublished(t)
          \/ PerformSeedFeedUpdated(t)

(***************************************************************************)
(* TransportManager.fetchMedia                                             *)
(***************************************************************************)

\* The tags fetchMedia looks at, with truthy and empty values.
MediaTags ==
    { <<"bt", "magnet:m">>, <<"bt", "">>, <<"url", "http://u">>,
      <<"url", "">>, <<"image", "http://i">>, <<"video", "http://v">> }

MediaTagLists == UNION {[1..n -> MediaTags] : n \in 0..MaxTags}

\* JavaScript `a || b` on tag values.
Or(a, b) == IF Truthy(a) THEN a ELSE b

MediaMagnet(tags) == FindTagValue(tags, "bt")

MediaUrl(tags) ==
    Or(Or(FindTagValue(tags, "url"), FindTagValue(tags, "image")),
       FindTagValue(tags, "video"))

MediaInit ==
    /\ mediaPc = "idle"
    /\ mediaTags = <<>>
    /\ mediaBt = None
    /\ mediaHttp = FALSE
    /\ mediaResult = [kind |-> None, data |-> ""]

\* The part of fetchMedia after the BT attempt: `if (url) return
\* "mock-http-data"`, else throw TransportError(.., "core").
HttpFallback(tags) ==
    /\ mediaHttp' = Truthy(MediaUrl(tags))
    /\ mediaResult' = IF Truthy(MediaUrl(tags))
                         THEN [kind |-> "http", data |-> "mock-http-data"]
                         ELSE [kind |-> "TransportError", data |-> "core"]
    /\ mediaPc' = "done"

\* fetchMedia(event) up to `await this.transport.bt.fetch(magnet)`, or to
\* its end when the event has no usable bt tag.
FetchMediaCall ==
    /\ UNCHANGED notMediaVars
    /\ mediaPc \in {"idle", "done"}
    /\ \E tags \in MediaTagLists :
          /\ mediaTags' = tags
          /\ mediaBt' = None
          /\ IF Truthy(MediaMagnet(tags))
                THEN /\ mediaPc' = "bt"
                     /\ mediaHttp' = FALSE
                     /\ mediaResult' = [kind |-> None, data |-> ""]
                ELSE HttpFallback(tags)

\* Mutant: a failed bt.fetch is not swallowed.
MediaBtSettles_Throws ==
    /\ UNCHANGED notMediaVars
    /\ mediaPc = "bt"
    /\ mediaTags' = mediaTags
    /\ mediaHttp' = FALSE
    /\ mediaPc' = "done"
    /\ \/ /\ mediaBt' = "ok"
          /\ mediaResult' = [kind |-> "bt", data |-> MediaMagnet(mediaTags)]
       \/ /\ mediaBt' = "err"
          /\ mediaResult' = [kind |-> "TransportError", data |-> "bittorrent"]

\* bt.fetch settles: its buffer is returned, or its error is swallowed and
\* the HTTP branch runs.
MediaBtSettles ==
    /\ UNCHANGED notMediaVars
    /\ mediaPc = "bt"
    /\ mediaTags' = mediaTags
    /\ \/ /\ mediaBt' = "ok"
          /\ mediaResult' = [kind |-> "bt", data |-> MediaMagnet(mediaTags)]
          /\ mediaHttp' = FALSE
          /\ mediaPc' = "done"
       \/ /\ mediaBt' = "err"
          /\ HttpFallback(mediaTags)

MediaNext ==
    \/ FetchMediaCall
    \/ MediaBtSettles

(***************************************************************************)
(* RelayDatabase: saveEvent, queryEvents                                   *)
(***************************************************************************)

\* isReplaceable / isParameterized of saveEvent.
IsReplaceable(kind) == (kind >= 10000 /\ kind < 20000) \/ kind \in {0, 3}

IsParameterized(kind) == kind >= 30000 /\ kind < 40000

\* Kinds offered to saveEvent: regular, replaceable, deletion, parameterized.
DbKinds == {1, 3, 5, 30023}

\* Tag lists offered to saveEvent: no tag, a d tag with a value, another
\* value, and an empty value.
DbTagLists ==
    { <<>>, << <<"d", "a">> >>, << <<"d", "b">> >>, << <<"d", "">> >> }

\* events.id is TEXT: the id as it is written in an e tag.
IdText(id) == ToString(id)

\* Tag lists of the deletion events offered to saveEvent: no target, one
\* target, two targets.
DbTargetLists ==
    { <<>>, << <<"e", IdText(1)>> >>, << <<"e", IdText(2)>> >>,
      << <<"e", IdText(1)>>, <<"e", IdText(2)>> >> }

\* The tags that matter to saveEvent for each kind offered.
DbTagsFor(kind) ==
    IF kind = 5 THEN DbTargetLists
    ELSE IF IsParameterized(kind) THEN DbTagLists
    ELSE {<<>>}

DbEvents ==
    UNION {{[id |-> i, pubkey |-> p, created_at |-> ts, kind |-> k,
             tags |-> t] :
               i \in 1..MaxRowId, p \in Pubkeys, ts \in 1..MaxTime,
               t \in DbTagsFor(k)} : k \in DbKinds}

\* The row INSERT writes into events for an event.
Row(event) == [id |-> event.id, pubkey |-> event.pubkey,
               created_at |-> event.created_at, kind |-> event.kind]

\* `event.tags.find(t => t[0] === 'd')?.[1] || ''`
DTagParam(event) == Or(FindTagValue(event.tags, "d"), "")

\* `tag[0].length === 1 || tag[0] === 'd'`: the tags that get a tags row.
IsIndexedTag(tag) == Len(tag[1]) = 1 \/ tag[1] = "d"

\* The tags rows inserted for an event, in the order of event.tags.
TagRows(event) ==
    LET kept == SelectSeq(event.tags, IsIndexedTag)
    IN  [i \in 1..Len(kept) |->
            [event_id |-> event.id, name |-> kept[i][1], value |-> kept[i][2]]]

\* `SELECT event_id FROM tags WHERE name = 'd' AND value = ?`
IdsWithDTag(tagRows, value) ==
    {tagRows[i].event_id :
        i \in {j \in 1..Len(tagRows) :
                  tagRows[j].name = "d" /\ tagRows[j].value = value}}

\* Mutant: saveEvent without the replacement DELETE.
ReplacedRows_None(rows, tagRows, event) == {}

\* The rows the replacement DELETE of saveEvent removes.
ReplacedRows(rows, tagRows, event) ==
    IF IsReplaceable(event.kind)
       THEN {r \in rows : /\ r.pubkey = event.pubkey
                          /\ r.kind = event.kind
                          /\ r.created_at < event.created_at}
    ELSE IF IsParameterized(event.kind)
       THEN {r \in rows : /\ r.pubkey = event.pubkey
                          /\ r.kind = event.kind
                          /\ r.id \in IdsWithDTag(tagRows, DTagParam(event))
                          /\ r.created_at < event.created_at}
    ELSE {}

\* The rows the kind-5 DELETE of saveEvent removes (targets: the e tags).
DeletionTargets(event) ==
    {event.tags[i][2] : i \in {j \in 1..Len(event.tags) :
                                   event.tags[j][1] = "e"}}

\* Mutant: the kind-5 DELETE without its pubkey condition.
DeletedRows_AnyAuthor(rows, event) ==
    IF event.kind = 5
       THEN {r \in rows : IdText(r.id) \in DeletionTargets(event)}
       ELSE {}

DeletedRows(rows, event) ==
    IF event.kind = 5
       THEN {r \in rows : /\ r.pubkey = event.pubkey
                          /\ IdText(r.id) \in DeletionTargets(event)}
       ELSE {}

\* ON DELETE CASCADE: the tags rows of deleted events go with them.
Cascade(tagRows, gone) ==
    SelectSeq(tagRows, LAMBDA t : t.event_id \notin {r.id : r \in gone})

\* `SELECT name, value FROM tags WHERE event_id = ?`, as [name, value] pairs.
TagsOf(tagRows, id) ==
    LET mine == SelectSeq(tagRows, LAMBDA t : t.event_id = id)
    IN  [i \in 1..Len(mine) |-> <<mine[i].name, mine[i].value>>]

DbInit ==
    /\ events = {}
    /\ tagsTable = <<>>
    /\ saves = <<>>

\* saveEvent(event): one transaction. The history notes the rows it removed
\* (with the tags they had) and result.changes.
SaveEventTx(event) ==
    LET replaced == ReplacedRows(events, tagsTable, event)
        rows1 == events \ replaced
        tags1 == Cascade(tagsTable, replaced)
        deleted == DeletedRows(rows1, event)
        rows2 == rows1 \ deleted
        tags2 == Cascade(tags1, deleted)
        changes == IF \E r \in rows2 : r.id = event.id THEN 0 ELSE 1
        gone == replaced \cup deleted
    IN  /\ events' = IF changes > 0 THEN rows2 \cup {Row(event)} ELSE rows2
        /\ tagsTable' = IF changes > 0 THEN tags2 \o TagRows(event) ELSE tags2
        /\ saves' = Append(saves,
                       [event |-> event, changes |-> changes,
                        removed |-> {[row |-> r,
                                      tags |-> TagsOf(tagsTable, r.id)] :
                                        r \in gone}])

\* saveEvent called on the database directly.
SaveEvent ==
    /\ UNCHANGED notDbVars
    /\ Len(saves) < MaxSaves
    /\ \E event \in DbEvents : SaveEventTx(event)

\* new RelayDatabase(path) on a fresh file.
NewDatabase ==
    /\ UNCHANGED notDbVars
    /\ saves # <<>>
    /\ events' = {}
    /\ tagsTable' = <<>>
    /\ saves' = <<>>

\* A filter with only ids / authors / kinds; on = the key is present.
AnyOf == [on |-> FALSE, vals |-> {}]

OneOf(vals) == [on |-> TRUE, vals |-> vals]

\* The rows queryEvents(filter) selects, each with its tags reassembled
\* from the tags table.
QueryRows(rows, tagRows, filter) ==
    {[id |-> r.id, pubkey |-> r.pubkey, created_at |-> r.created_at,
      kind |-> r.kind, tags |-> TagsOf(tagRows, r.id)] :
        r \in {x \in rows :
                  /\ filter.ids.on => x.id \in filter.ids.vals
                  /\ filter.authors.on => x.pubkey \in filter.authors.vals
                  /\ filter.kinds.on => x.kind \in filter.kinds.vals}}

\* queryEvents(filter): the selected rows ORDER BY created_at DESC; rows
\* with equal created_at come in an order SQLite chooses, so the result is
\* one of these sequences.
QueryEvents(rows, tagRows, filter) ==
    LET sel == QueryRows(rows, tagRows, filter)
        n == Cardinality(sel)
    IN  {q \in [1..n -> sel] :
            /\ \A i, j \in 1..n : i # j => q[i] # q[j]
            /\ \A i, j \in 1..n : i < j => q[i].created_at >= q[j].created_at}

DbNext ==
    \/ SaveEvent
    \/ NewDatabase

\* Tag lists of notes as clients send them: single-letter names, longer
\* names, tags with a third element (a relay hint), in several orders.
DbNoteTagLists ==
    { <<>>,
      << <<"t", "x">> >>,
      << <<"p", "alice">>, <<"t", "x">> >>,
      << <<"t", "x">>, <<"p", "alice">> >>,
      << <<"e", IdText(1), "wss://r">> >>,
      << <<"client", "x">>, <<"t", "x">> >> }

DbNotes ==
    {[id |-> i, pubkey |-> "alice", created_at |-> 1, kind |-> 1, tags |-> t] :
        i \in 1..MaxRowId, t \in DbNoteTagLists}

\* saveEvent called with a note.
SaveNote ==
    /\ UNCHANGED notDbVars
    /\ Len(saves) < MaxSaves
    /\ \E event \in DbNotes : SaveEventTx(event)

DbNotesNext ==
    \/ SaveNote
    \/ NewDatabase

(***************************************************************************)
(* The relay server: whitelist, EVENT / REQ / CLOSE, broadcast             *)
(***************************************************************************)

Conns == 1..MaxConns

\* One entry of the ALLOWED_PUBKEYS list: a hex key, an npub that decodes
\* to a key, or an npub that nip19.decode rejects.
WhitelistEntries ==
    {[form |-> f, key |-> k] : f \in {"hex", "npub", "badnpub"}, k \in Pubkeys}

\* The values of process.env.ALLOWED_PUBKEYS tried: unset, or some entries.
WhitelistConfigs ==
    { {},
      {[form |-> "hex", key |-> "alice"]},
      {[form |-> "npub", key |-> "alice"]},
      {[form |-> "badnpub", key |-> "alice"]} }

\* Whitelist setup: hex entries are added as they are, npub entries after
\* decoding, undecodable ones are skipped.
AllowedFrom(entries) == {e.key : e \in {x \in entries : x.form # "badnpub"}}

\* The events clients send to the relay: notes by two authors.
RelayEvents ==
    {e \in DbEvents : e.kind = 1 /\ e.created_at = 1 /\ e.id <= 2}

\* The filters clients subscribe with.
RelayFilters ==
    { [ids |-> AnyOf, authors |-> OneOf({"alice"}), kinds |-> AnyOf],
      [ids |-> AnyOf, authors |-> AnyOf, kinds |-> OneOf({3})] }

RelayFilterLists == {<<>>} \cup {<<f>> : f \in RelayFilters}

SubIds == {"s1"}

ClosedClient == [open |-> FALSE, subscriptions |-> {}]

NoEvent == [conn |-> 0, pubkey |-> None, id |-> 0]

Silent == [c \in Conns |-> {}]

RelayInit ==
    /\ allowed = {}
    /\ configured = FALSE
    /\ seedingQueue = [present |-> FALSE, jobs |-> <<>>]
    /\ clients = [c \in Conns |-> ClosedClient]
    /\ outbox = Silent
    /\ lastEvent = NoEvent

\* The relay process starts on a fresh database file.
RelayStart ==
    /\ UNCHANGED notRelayVars
    /\ \E entries \in WhitelistConfigs, bt \in BOOLEAN :
          /\ allowed' = AllowedFrom(entries)
          /\ configured' = (entries # {})
          /\ seedingQueue' = [present |-> bt, jobs |-> <<>>]
    /\ clients' = [c \in Conns |-> ClosedClient]
    /\ outbox' = Silent
    /\ lastEvent' = NoEvent
    /\ events' = {}
    /\ tagsTable' = <<>>
    /\ saves' = <<>>

\* wss.on('connection'): a new socket with an empty subscriptions map.
Connect(c) ==
    /\ UNCHANGED notRelayVars
    /\ UNCHANGED dbVars
    /\ ~clients[c].open
    /\ clients' = [clients EXCEPT ![c] = [open |-> TRUE, subscriptions |-> {}]]
    /\ outbox' = Silent
    /\ lastEvent' = NoEvent
    /\ UNCHANGED <<allowed, configured, seedingQueue>>

\* ws.on('close')
Disconnect(c) ==
    /\ UNCHANGED notRelayVars
    /\ UNCHANGED dbVars
    /\ clients[c].open
    /\ clients' = [clients EXCEPT ![c] = ClosedClient]
    /\ outbox' = Silent
    /\ lastEvent' = NoEvent
    /\ UNCHANGED <<allowed, configured, seedingQueue>>

\* broadcast(event): one message to every client whose socket is open.
Broadcast(box, event) ==
    [c \in Conns |->
        IF clients[c].open
           THEN box[c] \cup {[type |-> "EVENT", sub |-> "subscription",
                              event |-> event]}
           ELSE box[c]]

OkMessage(event, ok) == [type |-> "OK", id |-> event.id, ok |-> ok]

\* A handler that takes every save for an insert.
Inserted_Always(result) == TRUE

\* result.changes > 0
Inserted(result) == result.changes > 0

\* ['EVENT', event] from connection c.
OnEvent(c) ==
    /\ UNCHANGED notRelayVars
    /\ clients[c].open
    /\ Len(saves) < MaxSaves
    /\ \E event \in RelayEvents :
          /\ lastEvent' = [conn |-> c, pubkey |-> event.pubkey,
                           id |-> event.id]
          /\ IF allowed # {} /\ event.pubkey \notin allowed
                THEN /\ outbox' = [Silent EXCEPT
                                      ![c] = {OkMessage(event, FALSE)}]
                     /\ UNCHANGED <<dbVars, seedingQueue>>
                ELSE /\ SaveEventTx(event)
                     /\ LET acked == [Silent EXCEPT
                                         ![c] = {OkMessage(event, TRUE)}]
                            inserted == Inserted(saves'[Len(saves')])
                        IN  /\ outbox' = IF inserted
                                            THEN Broadcast(acked, event)
                                            ELSE acked
                            /\ seedingQueue' =
                                  IF inserted /\ seedingQueue.present
                                     THEN [seedingQueue EXCEPT
                                              !.jobs = Append(@, event)]
                                     ELSE seedingQueue
    /\ UNCHANGED <<allowed, configured, clients>>

\* ['REQ', subId, ...filters] from connection c: the subscription is
\* registered, the stored events of each filter are sent, then EOSE.
OnReq(c) ==
    /\ UNCHANGED notRelayVars
    /\ UNCHANGED dbVars
    /\ clients[c].open
    /\ \E subId \in SubIds, filters \in RelayFilterLists :
          /\ clients' =
                [clients EXCEPT ![c].subscriptions =
                    {s \in @ : s.id # subId}
                       \cup {[id |-> subId, filters |-> filters]}]
          /\ outbox' =
                [Silent EXCEPT ![c] =
                    {[type |-> "EVENT", sub |-> subId, event |-> e] :
                               e \in UNION {QueryRows(events, tagsTable,
                                                      filters[i]) :
                                               i \in 1..Len(filters)}}
                      \cup {[type |-> "EOSE", sub |-> subId]}]
    /\ lastEvent' = NoEvent
    /\ UNCHANGED <<allowed, configured, seedingQueue>>

\* ['CLOSE', subId] from connection c.
OnClose(c) ==
    /\ UNCHANGED notRelayVars
    /\ UNCHANGED dbVars
    /\ clients[c].open
    /\ \E subId \in SubIds :
          /\ \E s \in clients[c].subscriptions : s.id = subId
          /\ clients' = [clients EXCEPT ![c].subscriptions =
                            {s \in @ : s.id # subId}]
    /\ outbox' = Silent
    /\ lastEvent' = NoEvent
    /\ UNCHANGED <<allowed, configured, seedingQueue>>

RelayNext ==
    \/ RelayStart
    \/ \E c \in Conns :
          \/ Connect(c)
          \/ Disconnect(c)
          \/ OnEvent(c)
          \/ OnReq(c)
          \/ OnClose(c)

(***************************************************************************)
(* WoTManager: the follow graph                                            *)
(***************************************************************************)

WotKeys == {"alice", "bob", "carol"}

DefaultMaxDegree == 2

\* The values given to maxDegree.
MaxDegrees == {DefaultMaxDegree, DefaultMaxDegree + 1}

Absent == [present |-> FALSE, degree |-> 0, lastSynced |-> 0]

FollowRecord(degree, lastSynced) ==
    [present |-> TRUE, degree |-> degree, lastSynced |-> lastSynced]

\* An insert that always writes the record.
AddTo_Always(f, pk, degree) == [f EXCEPT ![pk] = FollowRecord(degree, 0)]

\* The insert both _parseContactList and addFollow perform for one pubkey:
\* set when absent or when the recorded degree is greater.
AddTo(f, pk, degree) ==
    IF ~f[pk].present \/ f[pk].degree > degree
       THEN [f EXCEPT ![pk] = FollowRecord(degree, 0)]
       ELSE f

\* _parseContactList(event, degree): nothing above maxDegree, else one
\* insert per 'p' tag, in tag order.
RECURSIVE ParseTags(_, _, _)
ParseTags(f, tags, degree) ==
    IF tags = <<>> THEN f
    ELSE LET tag == Head(tags)
             g == IF tag[1] = "p" THEN AddTo(f, tag[2], degree) ELSE f
         IN  ParseTags(g, Tail(tags), degree)

ParseContactList(f, tags, degree, max) ==
    IF degree > max THEN f ELSE ParseTags(f, tags, degree)

\* The inserts one operation performs, each with the record found and the
\* record left.
InsertLog(pk, degree, before, after) ==
    [pk |-> pk, degree |-> degree, old |-> before[pk], new |-> after[pk]]

RECURSIVE ParseLog(_, _, _)
ParseLog(f, tags, degree) ==
    IF tags = <<>> THEN <<>>
    ELSE LET tag == Head(tags)
             g == IF tag[1] = "p" THEN AddTo(f, tag[2], degree) ELSE f
         IN  (IF tag[1] = "p"
                 THEN <<InsertLog(tag[2], degree, f, g)>> ELSE <<>>)
             \o ParseLog(g, Tail(tags), degree)

ContactListLog(f, tags, degree, max) ==
    IF degree > max THEN <<>> ELSE ParseLog(f, tags, degree)

\* The kind-3 event each pubkey has published: its tags.
ContactTagsOf(pk) ==
    CASE pk = "alice" -> << <<"p", "bob">> >>
      [] pk = "bob"   -> << <<"p", "carol">>, <<"t", "bob">>,
                            <<"p", "alice">> >>
      [] OTHER        -> << <<"p", "alice">>, <<"p", "carol">>,
                            <<"p", "alice">> >>

PTagged(tags) == {tags[i][2] : i \in {j \in 1..Len(tags) : tags[j][1] = "p"}}

\* What the network answers for a pubkey:
\*   nokey         no identity-bridge event: resolveTransportKey gives null
\*   nofeed        discover finds no feed pointer: subscribeP2P gives []
\*   feedfail      the index torrent cannot be fetched: subscribeP2P throws
\*   notes         an index without a kind-3 entry
\*   contacts      an index with a kind-3 entry whose event is fetched
\*   contactsfail  an index with a kind-3 entry whose event fetch fails
NetConfigs ==
    { [alice |-> "notes", bob |-> "contacts", carol |-> "notes"],
      [alice |-> "nokey", bob |-> "contactsfail", carol |-> "contacts"],
      [alice |-> "contacts", bob |-> "nokey", carol |-> "nofeed"],
      [alice |-> "notes", bob |-> "feedfail", carol |-> "contacts"],
      [alice |-> "contacts", bob |-> "contacts", carol |-> "contacts"] }

IdleSync == [pc |-> "idle", d |-> 0, pending |-> {}]

IdleFollowsSub ==
    [pc |-> "idle", pending |-> {}, keys |-> {}, allEvents |-> <<>>,
     result |-> <<>>]

Quiet == wotSync.pc # "level" /\ followsSub.pc # "running"

WotInit ==
    /\ follows = [pk \in WotKeys |-> Absent]
    /\ maxDegree = DefaultMaxDegree
    /\ net = [alice |-> "notes", bob |-> "contacts", carol |-> "notes"]
    /\ lastInserts = <<>>
    /\ wotSync = IdleSync
    /\ followsSub = IdleFollowsSub

\* new WoTManager(...), maxDegree possibly assigned, in some network.
NewWoTManager ==
    /\ UNCHANGED notWotVars
    /\ follows' = [pk \in WotKeys |-> Absent]
    /\ \E m \in MaxDegrees : maxDegree' = m
    /\ \E n \in NetConfigs : net' = n
    /\ lastInserts' = <<>>
    /\ wotSync' = IdleSync
    /\ followsSub' = IdleFollowsSub

\* refreshFollows(userPubkey): the user at degree 0, then the contact list
\* the relay delivers, if any, at degree 1.
RefreshFollows(user) ==
    /\ UNCHANGED notWotVars
    /\ Quiet
    /\ LET own == [follows EXCEPT ![user] = FollowRecord(0, Now)]
       IN  \E delivered \in BOOLEAN :
              LET tags == IF delivered THEN ContactTagsOf(user) ELSE <<>>
              IN  /\ follows' = ParseContactList(own, tags, 1, maxDegree)
                  /\ lastInserts' = ContactListLog(own, tags, 1, maxDegree)
    /\ wotSync' = IdleSync
    /\ followsSub' = IdleFollowsSub
    /\ UNCHANGED <<maxDegree, net>>

\* addFollow(pubkey, degree)
AddFollowAt(pk, degree) ==
    /\ UNCHANGED notWotVars
    /\ Quiet
    /\ follows' = AddTo(follows, pk, degree)
    /\ lastInserts' = <<InsertLog(pk, degree, follows, follows')>>
    /\ wotSync' = IdleSync
    /\ followsSub' = IdleFollowsSub
    /\ UNCHANGED <<maxDegree, net>>

(***************************************************************************)
(* TransportManager over the follow graph: syncWoTRecursiveP2P and         *)
(* subscribeFollowsP2P, on a manager that has a WoTManager and a           *)
(* FeedManager                                                             *)
(***************************************************************************)

\* getPubkeysAtDegree(degree)
PubkeysAtDegree(f, degree) ==
    {pk \in WotKeys : f[pk].present /\ f[pk].degree = degree}

\* The ts of the newest entry of each pubkey's feed index.
NewestTs(pk) == IF pk = "carol" THEN 3 ELSE 2

FeedItem(id, ts, kind) ==
    [id |-> id, magnet |-> "magnet:" \o id, ts |-> ts, kind |-> kind]

\* data.items of the feed index subscribeP2P fetches for a pubkey.
FeedItemsOf(pk, profile) ==
    CASE profile = "notes" ->
            <<FeedItem(pk \o "-2", NewestTs(pk), 1), FeedItem(pk \o "-1", 1, 1)>>
      [] profile \in {"contacts", "contactsfail"} ->
            <<FeedItem(pk \o "-3", NewestTs(pk), 3), FeedItem(pk \o "-1", 1, 1)>>
      [] OTHER -> <<>>

\* events.find(e => e.kind === Kinds.Contacts) finds an entry.
HasContactEntry(items) == \E i \in 1..Len(items) : items[i].kind = 3

\* syncWoTRecursiveP2P is called: the loop starts at d = 1 with the nodes
\* then at degree 1.
SyncWoTCall ==
    /\ UNCHANGED notWotVars
    /\ Quiet
    /\ wotSync' = IF 1 < maxDegree
                     THEN [pc |-> "level", d |-> 1,
                           pending |-> PubkeysAtDegree(follows, 1)]
                     ELSE [pc |-> "done", d |-> 1, pending |-> {}]
    /\ lastInserts' = <<>>
    /\ followsSub' = IdleFollowsSub
    /\ UNCHANGED <<follows, maxDegree, net>>

\* A node promise that never reaches the parse.
SyncNode_NoParse(pk) ==
    /\ UNCHANGED notWotVars
    /\ wotSync.pc = "level"
    /\ pk \in wotSync.pending
    /\ wotSync' = [wotSync EXCEPT !.pending = @ \ {pk}]
    /\ lastInserts' = <<>>
    /\ UNCHANGED <<follows, maxDegree, net, followsSub>>

\* One node's promise runs to its end: key, feed, contact list, parse at
\* d + 1; any failure on the way is swallowed.
SyncNode(pk) ==
    /\ UNCHANGED notWotVars
    /\ wotSync.pc = "level"
    /\ pk \in wotSync.pending
    /\ LET parsed == net[pk] = "contacts"
                        /\ HasContactEntry(FeedItemsOf(pk, net[pk]))
           tags == IF parsed THEN ContactTagsOf(pk) ELSE <<>>
       IN  /\ follows' = ParseContactList(follows, tags, wotSync.d + 1,
                                          maxDegree)
           /\ lastInserts' = ContactListLog(follows, tags, wotSync.d + 1,
                                            maxDegree)
    /\ wotSync' = [wotSync EXCEPT !.pending = @ \ {pk}]
    /\ UNCHANGED <<maxDegree, net, followsSub>>

\* Promise.all of a level resolves: the next level, or the end of the loop.
SyncLevelDone ==
    /\ UNCHANGED notWotVars
    /\ wotSync.pc = "level"
    /\ wotSync.pending = {}
    /\ wotSync' = IF wotSync.d + 1 < maxDegree
                     THEN [pc |-> "level", d |-> wotSync.d + 1,
                           pending |-> PubkeysAtDegree(follows,
                                                       wotSync.d + 1)]
                     ELSE [wotSync EXCEPT !.pc = "done"]
    /\ UNCHANGED <<follows, maxDegree, net, lastInserts, followsSub>>

\* subscribeFollowsP2P is called: [] when the graph is empty, else one
\* promise per recorded pubkey.
SubscribeFollowsCall ==
    /\ UNCHANGED notWotVars
    /\ Quiet
    /\ LET keys == {pk \in WotKeys : follows[pk].present}
       IN  followsSub' =
              IF keys = {}
                 THEN [IdleFollowsSub EXCEPT !.pc = "returned"]
                 ELSE [IdleFollowsSub EXCEPT !.pc = "running",
                                             !.keys = keys,
                                             !.pending = keys]
    /\ wotSync' = IdleSync
    /\ UNCHANGED <<follows, maxDegree, net, lastInserts>>

\* One pubkey's promise runs to its end: nothing without a transport key,
\* the items of its index pushed, or the rejection of subscribeP2P, which
\* Promise.all passes on.
FollowSettles(pk) ==
    /\ UNCHANGED notWotVars
    /\ followsSub.pc = "running"
    /\ pk \in followsSub.pending
    /\ followsSub' =
          IF net[pk] = "feedfail"
             THEN [followsSub EXCEPT !.pc = "threw", !.pending = {}]
             ELSE [followsSub EXCEPT
                      !.pending = @ \ {pk},
                      !.allEvents = @ \o FeedItemsOf(pk, net[pk])]
    /\ UNCHANGED <<follows, maxDegree, net, lastInserts, wotSync>>

\* A return of allEvents in arrival order.
FollowsAllSettled_Unsorted ==
    /\ UNCHANGED notWotVars
    /\ followsSub.pc = "running"
    /\ followsSub.pending = {}
    /\ followsSub' = [followsSub EXCEPT !.pc = "returned",
                                        !.result = followsSub.allEvents]
    /\ UNCHANGED <<follows, maxDegree, net, lastInserts, wotSync>>

\* Promise.all resolves: allEvents.sort((a, b) => b.ts - a.ts) is returned.
FollowsAllSettled ==
    /\ UNCHANGED notWotVars
    /\ followsSub.pc = "running"
    /\ followsSub.pending = {}
    /\ followsSub' = [followsSub EXCEPT
                         !.pc = "returned",
                         !.result = SortByTsDesc(followsSub.allEvents)]
    /\ UNCHANGED <<follows, maxDegree, net, lastInserts, wotSync>>

WotNext ==
    \/ NewWoTManager
    \/ \E pk \in WotKeys : RefreshFollows(pk)
    \/ \E pk \in WotKeys, d \in 0..MaxDegreeArg : AddFollowAt(pk, d)
    \/ SyncWoTCall
    \/ \E pk \in WotKeys : SyncNode(pk)
    \/ SyncLevelDone
    \/ SubscribeFollowsCall
    \/ \E pk \in WotKeys : FollowSettles(pk)
    \/ FollowsAllSettled

(***************************************************************************)
(* A subscribing peer: FeedTracker.discover and subscribeP2P               *)
(***************************************************************************)

IdleSub == [pc |-> "idle", mustSee |-> {}, got |-> NoRecord,
            magnet |-> <<>>, cacheHit |-> FALSE]

NoSubResult == [status |-> None, items |-> <<>>, mustSee |-> {},
                cacheHit |-> FALSE]

SubInit ==
    /\ trackerCache = NoRecord
    /\ sub = IdleSub
    /\ subResult = NoSubResult

\* subscribeP2P(transportPubkey) up to the first await inside
\* tracker.discover: a cache hit yields the cached magnet, otherwise
\* resolveFeedPointer sends the DHT GET, which is answered with the stored
\* record. mustSee notes the events whose updateFeed had completed.
SubscribeP2PCall ==
    /\ UNCHANGED notP2PVars
    /\ UNCHANGED feedVars
    /\ sub.pc = "idle"
    /\ IF trackerCache.found
          THEN sub' = [IdleSub EXCEPT !.pc = "fetch", !.mustSee = fedEvents,
                                      !.magnet = trackerCache.ih,
                                      !.cacheHit = TRUE]
          ELSE sub' = [IdleSub EXCEPT !.pc = "discover",
                                      !.mustSee = fedEvents, !.got = dht]
    /\ UNCHANGED <<trackerCache, subResult>>

\* discover() resumes with the pointer: a record is turned into a magnet and
\* cached; without one (no relay pubkey was given) discover returns null and
\* subscribeP2P returns [].
DiscoverResolved ==
    /\ UNCHANGED notP2PVars
    /\ UNCHANGED feedVars
    /\ sub.pc = "discover"
    /\ IF sub.got.found
          THEN /\ trackerCache' = [found |-> TRUE, ih |-> sub.got.ih]
               /\ sub' = [sub EXCEPT !.pc = "fetch", !.magnet = sub.got.ih]
               /\ UNCHANGED subResult
          ELSE /\ subResult' = [status |-> "returned", items |-> <<>>,
                                mustSee |-> sub.mustSee, cacheHit |-> FALSE]
               /\ sub' = IdleSub
               /\ UNCHANGED trackerCache

\* `await this.transport.bt.fetch(magnet)` settles: the buffer seeded under
\* that infoHash is parsed and its items returned; a torrent nobody seeds
\* times out and subscribeP2P throws TransportError("bittorrent").
FetchSettles ==
    /\ UNCHANGED notP2PVars
    /\ UNCHANGED feedVars
    /\ sub.pc = "fetch"
    /\ subResult' =
          IF sub.magnet \in swarm
             THEN [status |-> "returned", items |-> sub.magnet,
                   mustSee |-> sub.mustSee, cacheHit |-> sub.cacheHit]
             ELSE [status |-> "TransportError", items |-> <<>>,
                   mustSee |-> sub.mustSee, cacheHit |-> sub.cacheHit]
    /\ sub' = IdleSub
    /\ UNCHANGED trackerCache

\* One publisher whose updateFeed calls do not overlap, and one subscriber.
P2PNext ==
    \/ UpdateFeedCall(1)
    \/ UpdateFeedSeeded(1)
    \/ PutCallback(1)
    \/ RetryTimer(1)
    \/ SubscribeP2PCall
    \/ DiscoverResolved
    \/ FetchSettles

(***************************************************************************)
(* The relay's seeding queues: the BullMQ queue of Queue.js and the        *)
(* in-process queue of SeedingQueue.js                                     *)
(***************************************************************************)

MaxConcurrency == 2
MaxJobs == 3
MaxEnqueues == 3
MaxQueueEvent == 2

\* enqueue(): attempts: 3, backoff: { type: 'exponential', delay: 5000 }
JobAttempts == 3
BackoffDelay == 5000

JobIds == 1..MaxJobs
QueueEvents == 1..MaxQueueEvent

NoJob == [state |-> None, event |-> 0, attemptsMade |-> 0, delays |-> <<>>]

Pow2(n) == IF n <= 0 THEN 1 ELSE IF n = 1 THEN 2 ELSE 4

\* BullMQ's exponential backoff: 2^(attemptsMade - 1) * delay
ExponentialBackoff_Constant(attemptsMade) == BackoffDelay

ExponentialBackoff(attemptsMade) == Pow2(attemptsMade - 1) * BackoffDelay

ActiveJobs == {j \in JobIds : qJobs[j].state = "active"}

\* The worker fetches the next waiting job only while fewer than
\* `concurrency` of its jobs are being processed.
WorkerHasSlot_Unlimited == TRUE

WorkerHasSlot == Cardinality(ActiveJobs) < qConcurrency

\* process() returns at once while a reseed is in progress or nothing waits.
ProcessReturnsEarly(queue) == isProcessing \/ queue = <<>>

QueueInit ==
    /\ qKind = None
    /\ qConcurrency = 0
    /\ qJobs = [j \in JobIds |-> NoJob]
    /\ qWait = <<>>
    /\ qLog = {}
    /\ qAcked = {}
    /\ ipQueue = <<>>
    /\ isProcessing = FALSE
    /\ ipRunning = <<>>
    /\ ipImmediates = 0
    /\ ipEnqueued = <<>>
    /\ ipAttempts = [e \in QueueEvents |-> 0]
    /\ ipLog = {}
    /\ ipHanded = <<>>

\* new SeedingQueue(manager) of Queue.js: the Worker is created with
\* concurrency SEEDING_CONCURRENCY (the environment's value or the CPU count).
NewSeedingQueue ==
    /\ UNCHANGED notQueueVars
    /\ qKind = None
    /\ qKind' = "bullmq"
    /\ \E n \in 1..MaxConcurrency : qConcurrency' = n
    /\ UNCHANGED <<qJobs, qWait, qLog, qAcked, ipQueue, isProcessing,
                   ipRunning, ipImmediates, ipEnqueued, ipAttempts, ipHanded,
                   ipLog>>

\* new SeedingQueue(transportManager) of SeedingQueue.js: an empty array and
\* isProcessing = false.
NewInProcessQueue ==
    /\ UNCHANGED notQueueVars
    /\ qKind = None
    /\ qKind' = "in-process"
    /\ ipQueue' = <<>>
    /\ isProcessing' = FALSE
    /\ UNCHANGED <<qConcurrency, qJobs, qWait, qLog, qAcked, ipRunning,
                   ipImmediates, ipEnqueued, ipAttempts, ipHanded,
                   ipLog>>

\* The relay's EVENT handler for a stored event: it sends ["OK", id, true] and
\* then calls queue.enqueue(event), which adds one job to the wait list.
QueueEnqueue(event) ==
    /\ UNCHANGED notQueueVars
    /\ qKind = "bullmq"
    /\ \E j \in JobIds :
          /\ qJobs[j].state = None
          /\ \A i \in JobIds : i < j => qJobs[i].state # None
          /\ qJobs' = [qJobs EXCEPT ![j] = [NoJob EXCEPT !.state = "waiting",
                                                         !.event = event]]
          /\ qWait' = Append(qWait, j)
    /\ qAcked' = qAcked \cup {event}
    /\ UNCHANGED <<qKind, qConcurrency, qLog, ipQueue, isProcessing, ipRunning,
                   ipImmediates, ipEnqueued, ipAttempts, ipHanded,
                   ipLog>>

\* The worker takes the oldest waiting job and starts the processor,
\* manager.reseedEvent(event, false).
WorkerTakesJob ==
    /\ UNCHANGED notQueueVars
    /\ qWait # <<>>
    /\ WorkerHasSlot
    /\ qJobs' = [qJobs EXCEPT ![Head(qWait)].state = "active"]
    /\ qWait' = Tail(qWait)
    /\ UNCHANGED <<qKind, qConcurrency, qLog, qAcked, ipQueue, isProcessing,
                   ipRunning, ipImmediates, ipEnqueued, ipAttempts, ipHanded,
                   ipLog>>

\* The processor returns { status: 'seeded' }: removeOnComplete drops the job.
JobCompletes(j) ==
    /\ UNCHANGED notQueueVars
    /\ qJobs[j].state = "active"
    /\ qJobs' = [qJobs EXCEPT ![j].state = "completed",
                              ![j].attemptsMade = @ + 1]
    /\ UNCHANGED <<qKind, qConcurrency, qWait, qLog, qAcked, ipQueue, isProcessing,
                   ipRunning, ipImmediates, ipEnqueued, ipAttempts, ipHanded,
                   ipLog>>

\* reseedEvent throws: the attempt is counted and logged by the 'failed'
\* listener; with attempts left the job is delayed by the backoff, otherwise
\* it is moved to the failed set.
JobFails(j) ==
    /\ UNCHANGED notQueueVars
    /\ qJobs[j].state = "active"
    /\ LET made == qJobs[j].attemptsMade + 1
       IN  /\ qLog' = qLog \cup {<<j, made>>}
           /\ qJobs' =
                 IF made < JobAttempts
                    THEN [qJobs EXCEPT
                            ![j].state = "delayed",
                            ![j].attemptsMade = made,
                            ![j].delays = Append(@, ExponentialBackoff(made))]
                    ELSE [qJobs EXCEPT ![j].state = "failed",
                                       ![j].attemptsMade = made]
    /\ UNCHANGED <<qKind, qConcurrency, qWait, qAcked, ipQueue, isProcessing,
                   ipRunning, ipImmediates, ipEnqueued, ipAttempts, ipHanded,
                   ipLog>>

\* The backoff delay of a delayed job has elapsed: it waits again.
DelayElapses(j) ==
    /\ UNCHANGED notQueueVars
    /\ qJobs[j].state = "delayed"
    /\ qJobs' = [qJobs EXCEPT ![j].state = "waiting"]
    /\ qWait' = Append(qWait, j)
    /\ UNCHANGED <<qKind, qConcurrency, qLog, qAcked, ipQueue, isProcessing,
                   ipRunning, ipImmediates, ipEnqueued, ipAttempts, ipHanded,
                   ipLog>>

\* A process() that takes the newest queued event.
Process_Lifo(queue) ==
    IF ProcessReturnsEarly(queue)
       THEN /\ ipQueue' = queue
            /\ UNCHANGED <<isProcessing, ipRunning, ipAttempts, ipHanded>>
       ELSE /\ isProcessing' = TRUE
            /\ ipQueue' = SubSeq(queue, 1, Len(queue) - 1)
            /\ ipRunning' = Append(ipRunning, queue[Len(queue)])
            /\ ipAttempts' = [ipAttempts EXCEPT ![queue[Len(queue)]] = @ + 1]
            /\ ipHanded' = Append(ipHanded, queue[Len(queue)])

\* process() of the in-process queue, up to its await, on the queue `queue`:
\* unless it returns early it sets isProcessing, shifts the first event and
\* calls reseedEvent.
Process(queue) ==
    IF ProcessReturnsEarly(queue)
       THEN /\ ipQueue' = queue
            /\ UNCHANGED <<isProcessing, ipRunning, ipAttempts, ipHanded>>
       ELSE /\ isProcessing' = TRUE
            /\ ipQueue' = Tail(queue)
            /\ ipRunning' = Append(ipRunning, Head(queue))
            /\ ipAttempts' = [ipAttempts EXCEPT ![Head(queue)] = @ + 1]
            /\ ipHanded' = Append(ipHanded, Head(queue))

\* enqueue(event) of the in-process queue: push, then process().
InProcessEnqueue(event) ==
    /\ UNCHANGED notQueueVars
    /\ qKind = "in-process"
    /\ Len(ipEnqueued) < MaxEnqueues
    /\ ipEnqueued' = Append(ipEnqueued, event)
    /\ Process(Append(ipQueue, event))
    /\ UNCHANGED <<qKind, qConcurrency, qJobs, qWait, qLog, qAcked, ipImmediates,
                   ipLog>>

RemoveAt(sq, i) == SubSeq(sq, 1, i - 1) \o SubSeq(sq, i + 1, Len(sq))

\* `await this.manager.reseedEvent(event, false)` settles in process(): a
\* failure is caught and logged; then isProcessing is cleared and the next
\* process() is scheduled with setImmediate.
InProcessSettles(i, ok) ==
    /\ UNCHANGED notQueueVars
    /\ i \in 1..Len(ipRunning)
    /\ ipLog' = IF ok THEN ipLog ELSE ipLog \cup {ipRunning[i]}
    /\ ipRunning' = RemoveAt(ipRunning, i)
    /\ isProcessing' = FALSE
    /\ ipImmediates' = ipImmediates + 1
    /\ UNCHANGED <<qKind, qConcurrency, qJobs, qWait, qLog, qAcked, ipQueue,
                   ipEnqueued, ipAttempts, ipHanded>>

\* A setImmediate callback runs process().
InProcessImmediate ==
    /\ UNCHANGED notQueueVars
    /\ ipImmediates > 0
    /\ ipImmediates' = ipImmediates - 1
    /\ Process(ipQueue)
    /\ UNCHANGED <<qKind, qConcurrency, qJobs, qWait, qLog, qAcked, ipEnqueued,
                   ipLog>>

QueueNext ==
    \/ NewSeedingQueue
    \/ NewInProcessQueue
    \/ \E event \in QueueEvents : QueueEnqueue(event)
    \/ WorkerTakesJob
    \/ \E j \in JobIds : JobCompletes(j)
    \/ \E j \in JobIds : JobFails(j)
    \/ \E j \in JobIds : DelayElapses(j)
    \/ \E event \in QueueEvents : InProcessEnqueue(event)
    \/ \E i \in 1..MaxEnqueues, ok \in BOOLEAN : InProcessSettles(i, ok)
    \/ InProcessImmediate

(***************************************************************************)
(* FeedManager.seq against a BEP-44 store: publishFeedPointer and          *)
(* syncSequence after a restart                                            *)
(***************************************************************************)

\* Highest seq a stored record starts from.
MaxStored == 3

NoSeqCall == [pc |-> "idle", remaining |-> 0, put |-> None, putSeq |-> 0]

\* What resolveFeedPointer gave syncSequence: a record's seq, null, or a
\* rejection.
NoAnswer == [kind |-> None, seq |-> 0]

NoSync == [pc |-> "idle", got |-> NoAnswer, before |-> 0, returned |-> 0]

\* A BEP-44 store rejects a PUT whose seq is not above the stored seq.
Stale == sqStored > 0 /\ sqSeq <= sqStored

SeqInit ==
    /\ sqNet = None
    /\ sqSeq = 1
    /\ sqStored = 0
    /\ sqCall = NoSeqCall
    /\ sqSync = NoSync

\* new FeedManager(bt, identity, options) in a process started for an
\* identity whose record, if any, the DHT holds with seq `stored`:
\* this.seq = options.initialSeq || 1.
StartFeedManager ==
    /\ UNCHANGED notSeqVars
    /\ sqNet = None
    /\ \E reach \in {"reachable", "lossy"} : sqNet' = reach
    /\ \E stored \in 0..MaxStored : sqStored' = stored
    /\ \E initialSeq \in InitialSeqs :
          sqSeq' = IF initialSeq = 0 THEN 1 ELSE initialSeq
    /\ UNCHANGED <<sqCall, sqSync>>

\* One run of attempt(remaining): seq: this.seq++, then dht.put.
SeqAttempt_NoIncrement(remaining) ==
    /\ sqSeq' = sqSeq
    /\ \E outcome \in IF Stale THEN {"err"}
                     ELSE IF sqNet = "reachable" THEN {"ok"}
                     ELSE {"ok", "err"} :
          /\ sqStored' = IF outcome = "ok" THEN sqSeq ELSE sqStored
          /\ sqCall' = [pc |-> "put", remaining |-> remaining,
                        put |-> outcome, putSeq |-> sqSeq]

SeqAttempt(remaining) ==
    /\ sqSeq' = sqSeq + 1
    /\ \E outcome \in IF Stale THEN {"err"}
                     ELSE IF sqNet = "reachable" THEN {"ok"}
                     ELSE {"ok", "err"} :
          /\ sqStored' = IF outcome = "ok" THEN sqSeq ELSE sqStored
          /\ sqCall' = [pc |-> "put", remaining |-> remaining,
                        put |-> outcome, putSeq |-> sqSeq]

\* publishFeedPointer(infoHash, retries) with a valid infoHash, up to its
\* first dht.put.
SeqPublishCall ==
    /\ UNCHANGED notSeqVars
    /\ sqNet # None
    /\ sqCall.pc \in {"idle", "resolved", "rejected"}
    /\ Stale \/ (sqStored < MaxSeq /\ sqSeq <= MaxSeq)
    /\ \E retries \in {0, DefaultRetries} : SeqAttempt(retries)
    /\ UNCHANGED <<sqNet, sqSync>>

\* The dht.put callback of the call.
SeqPutCallback ==
    /\ UNCHANGED notSeqVars
    /\ sqCall.pc = "put"
    /\ sqCall' = [sqCall EXCEPT !.pc = IF sqCall.put = "ok" THEN "resolved"
                                       ELSE IF sqCall.remaining > 0 THEN "wait"
                                       ELSE "rejected"]
    /\ UNCHANGED <<sqNet, sqSeq, sqStored, sqSync>>

\* The 2 s timer of a failed attempt fires: attempt(remaining - 1).
SeqRetryTimer ==
    /\ UNCHANGED notSeqVars
    /\ sqCall.pc = "wait"
    /\ SeqAttempt(sqCall.remaining - 1)
    /\ UNCHANGED <<sqNet, sqSync>>

\* syncSequence() up to `await this.resolveFeedPointer(pubkey)`: the GET is
\* answered with the stored record, with null, or fails.
SyncSequenceStart ==
    /\ UNCHANGED notSeqVars
    /\ sqNet # None
    /\ sqSync.pc # "get"
    /\ sqStored < MaxSeq
    /\ \E answer \in {"record", "null", "error"} :
          sqSync' =
             [NoSync EXCEPT
                 !.pc = "get",
                 !.got = IF answer = "record" /\ sqStored > 0
                            THEN [kind |-> "record", seq |-> sqStored]
                         ELSE IF answer = "error"
                            THEN [kind |-> "error", seq |-> 0]
                         ELSE [kind |-> "null", seq |-> 0]]
    /\ UNCHANGED <<sqNet, sqSeq, sqStored, sqCall>>

\* The seq syncSequence leaves in this.seq; a rejection is caught.
SyncedSeq_Keep(got) == sqSeq

SyncedSeq(got) == IF got.kind = "record" THEN got.seq + 1 ELSE sqSeq

\* syncSequence() resumes after the await and returns this.seq.
SyncSequenceDone ==
    /\ UNCHANGED notSeqVars
    /\ sqSync.pc = "get"
    /\ sqSeq' = SyncedSeq(sqSync.got)
    /\ sqSync' = [sqSync EXCEPT !.pc = "returned", !.before = sqSeq,
                                !.returned = SyncedSeq(sqSync.got)]
    /\ UNCHANGED <<sqNet, sqStored, sqCall>>

SeqNext ==
    \/ StartFeedManager
    \/ SeqPublishCall
    \/ SeqPutCallback
    \/ SeqRetryTimer
    \/ SyncSequenceStart
    \/ SyncSequenceDone

(***************************************************************************)
(* BEP-44 addressing: the target of a PUT with key k and the target        *)
(* resolveFeedPointer hands to dht.get                                     *)
(***************************************************************************)

MaxPuts == 3

\* Transport public keys as hex strings, in either case.
TransportPubkeys == StringsOfLen(HexChars, InfoHashLen)

\* crypto.createHash('sha1').update(bytes).digest(): never the bytes
\* themselves.
Sha1(bytes) == <<"sha1">> \o bytes

\* Buffer.from(bytes): a copy of the bytes.
RawTarget(bytes) == <<"raw">> \o bytes

\* The two resolveFeedPointer implementations of the repository.
ResolveImpls == {"sha1", "unhashed"}

\* The target resolveFeedPointer(transportPubkey) computes for dht.get.
GetTarget(impl, transportPubkey) ==
    IF impl = "sha1" THEN Sha1(BufferFromHex(transportPubkey))
    ELSE RawTarget(BufferFromHex(transportPubkey))

NoGet == [impl |-> None, pubkey |-> <<>>, target |-> <<>>, found |-> FALSE,
          published |-> FALSE]

AddrInit ==
    /\ adStore = {}
    /\ adPuts = 0
    /\ adGet = NoGet

\* A FeedManager with transport key `pubkey` publishes its pointer and the
\* PUT succeeds: the DHT stores the record of key k at SHA-1(k).
AddrPublish(pubkey) ==
    /\ UNCHANGED notAddrVars
    /\ adPuts < MaxPuts
    /\ adPuts' = adPuts + 1
    /\ adStore' = adStore \cup {Sha1(BufferFromHex(pubkey))}
    /\ adGet' = NoGet

\* resolveFeedPointer(pubkey) of another FeedManager on the same DHT:
\* dht.get(target) answers with the record stored at the target, if any.
AddrResolve(impl, pubkey) ==
    /\ UNCHANGED notAddrVars
    /\ LET target == GetTarget(impl, pubkey)
       IN  adGet' = [impl |-> impl, pubkey |-> pubkey, target |-> target,
                     found |-> target \in adStore,
                     published |-> Sha1(BufferFromHex(pubkey)) \in adStore]
    /\ UNCHANGED <<adStore, adPuts>>

AddrNext ==
    \/ \E pubkey \in TransportPubkeys : AddrPublish(pubkey)
    \/ \E impl \in ResolveImpls, pubkey \in TransportPubkeys :
          AddrResolve(impl, pubkey)

(***************************************************************************)
(* FeedTracker.discover: cache, DHT pointer, relay bridge                  *)
(***************************************************************************)

MaxDiscoverCalls == 2
MaxDiscoverKey == 2

DiscoverCallIds == 1..MaxDiscoverCalls
DiscoverKeys == 1..MaxDiscoverKey

\* A magnet URI: where it came from, and whether the transport's trackers
\* have been appended to it.
NoMagnet == [src |-> None, tr |-> FALSE]

IdleDiscover == [pc |-> "idle", key |-> 0, nostrPubkey |-> FALSE,
                 cacheHit |-> FALSE, queries |-> <<>>, dhtMagnet |-> FALSE,
                 magnetUri |-> NoMagnet, cached |-> FALSE,
                 result |-> NoMagnet]

DiscInit ==
    /\ dcTransport = [made |-> FALSE, dht |-> FALSE, nostr |-> FALSE,
                      announce |-> FALSE]
    /\ dcCache = [k \in DiscoverKeys |-> [has |-> FALSE, magnet |-> NoMagnet]]
    /\ dcCalls = [c \in DiscoverCallIds |-> IdleDiscover]

\* new FeedTracker(transportManager): an empty cache; the transport has a
\* DHT and a feedManager or not, a Nostr transport or not, trackers or not.
NewFeedTracker ==
    /\ UNCHANGED notDiscVars
    /\ ~dcTransport.made
    /\ \E d, n, a \in BOOLEAN :
          dcTransport' = [made |-> TRUE, dht |-> d, nostr |-> n,
                          announce |-> a]
    /\ UNCHANGED <<dcCache, dcCalls>>

\* `if (!magnetUri && this.manager.transport.nostr && nostrPubkey)`
QueriesRelay_Always(call, magnetUri) == dcTransport.nostr

QueriesRelay(call, magnetUri) ==
    magnetUri = NoMagnet /\ dcTransport.nostr /\ call.nostrPubkey

\* The end of discover: a magnet gets the transport's trackers appended, is
\* cached and returned; without one discover returns null.
DiscoverReturn(c, call, magnetUri) ==
    IF magnetUri # NoMagnet
       THEN LET full == [magnetUri EXCEPT !.tr = dcTransport.announce]
            IN  /\ dcCache' = [dcCache EXCEPT ![call.key] =
                                  [has |-> TRUE, magnet |-> full]]
                /\ dcCalls' = [dcCalls EXCEPT ![c] =
                                  [call EXCEPT !.pc = "returned",
                                               !.magnetUri = magnetUri,
                                               !.cached = TRUE,
                                               !.result = full]]
       ELSE /\ dcCache' = dcCache
            /\ dcCalls' = [dcCalls EXCEPT ![c] =
                              [call EXCEPT !.pc = "returned",
                                           !.magnetUri = magnetUri]]

\* discover() after the DHT step left `magnetUri`: the relay bridge
\* subscription is issued, or discover ends.
AfterDht(c, call, magnetUri) ==
    IF QueriesRelay(call, magnetUri)
       THEN /\ dcCalls' = [dcCalls EXCEPT ![c] =
                              [call EXCEPT !.pc = "relay",
                                           !.magnetUri = magnetUri,
                                           !.queries = Append(@, "relay")]]
            /\ dcCache' = dcCache
       ELSE DiscoverReturn(c, call, magnetUri)

\* discover(transportPubkey, nostrPubkey) up to its first await, or to its
\* return on a cache hit.
DiscoverCall(c, key, nostrPubkey) ==
    /\ UNCHANGED notDiscVars
    /\ dcTransport.made
    /\ dcCalls[c].pc \in {"idle", "returned", "threw"}
    /\ LET call == [IdleDiscover EXCEPT !.key = key,
                                        !.nostrPubkey = nostrPubkey]
       IN  IF dcCache[key].has
              THEN /\ dcCalls' = [dcCalls EXCEPT ![c] =
                                     [call EXCEPT
                                         !.pc = "returned",
                                         !.cacheHit = TRUE,
                                         !.result = dcCache[key].magnet]]
                   /\ dcCache' = dcCache
           ELSE IF dcTransport.dht
              THEN /\ dcCalls' = [dcCalls EXCEPT ![c] =
                                     [call EXCEPT !.pc = "dht",
                                                  !.queries = <<"dht">>]]
                   /\ dcCache' = dcCache
           ELSE AfterDht(c, call, NoMagnet)
    /\ UNCHANGED dcTransport

\* `await resolveFeedPointer(transportPubkey)` settles: a pointer with an
\* infoHash gives a magnet; null, a pointer without infoHash or a rejection
\* (caught) give none.
DhtSettles(c, answer) ==
    /\ UNCHANGED notDiscVars
    /\ dcCalls[c].pc = "dht"
    /\ LET magnetUri == IF answer = "pointer"
                           THEN [src |-> "dht", tr |-> FALSE]
                           ELSE NoMagnet
       IN  AfterDht(c, [dcCalls[c] EXCEPT !.dhtMagnet = (answer = "pointer")],
                    magnetUri)
    /\ UNCHANGED dcTransport

\* `await awaitEventWithTimeout(...)` settles: a bridge event whose content
\* is a magnet, null after 5 s, or subscribe threw.
RelaySettles(c, answer) ==
    /\ UNCHANGED notDiscVars
    /\ dcCalls[c].pc = "relay"
    /\ IF answer = "threw"
          THEN /\ dcCalls' = [dcCalls EXCEPT ![c].pc = "threw"]
               /\ dcCache' = dcCache
          ELSE DiscoverReturn(c, dcCalls[c],
                              IF answer = "event"
                                 THEN [src |-> "relay", tr |-> FALSE]
                                 ELSE dcCalls[c].magnetUri)
    /\ UNCHANGED dcTransport

DiscNext ==
    \/ NewFeedTracker
    \/ \E c \in DiscoverCallIds, key \in DiscoverKeys, npk \in BOOLEAN :
          DiscoverCall(c, key, npk)
    \/ \E c \in DiscoverCallIds,
          answer \in {"pointer", "null", "noInfoHash", "error"} :
          DhtSettles(c, answer)
    \/ \E c \in DiscoverCallIds, answer \in {"event", "timeout", "threw"} :
          RelaySettles(c, answer)

(***************************************************************************)
(* awaitEventWithTimeout(transport, filter, timeoutMs, matcher)            *)
(***************************************************************************)

MaxDeliveries == 3
MaxAwaitEvent == 2

\* The events a transport delivers; matcher(event) is event.match.
AwaitEvents == {[id |-> i, match |-> m] : i \in 1..MaxAwaitEvent, m \in BOOLEAN}

NoAwaitEvent == [id |-> 0, match |-> FALSE]

\* Sequences of at most n events.
EventSeqs(n) == UNION {[1..k -> AwaitEvents] : k \in 0..n}

Unsettled == [settled |-> FALSE, value |-> NoAwaitEvent, resolves |-> 0]

\* resolve(value): the first call settles the promise, later ones do nothing.
Resolve(promise, value) ==
    [settled |-> TRUE,
     value |-> IF promise.settled THEN promise.value ELSE value,
     resolves |-> promise.resolves + 1]

AwaitInit ==
    /\ awPc = "idle"
    /\ awSub = [open |-> FALSE, held |-> FALSE]
    /\ awTimer = None
    /\ awPromise = Unsettled
    /\ awDelivered = <<>>

\* The subscription callback on one event, in the state [sub, timer,
\* promise] it finds: a matching event clears the timer, closes the
\* subscription when `sub` holds it, and resolves.
OnAwaitEvent(st, event) ==
    IF event.match
       THEN [sub |-> IF st.sub.held THEN [st.sub EXCEPT !.open = FALSE]
                     ELSE st.sub,
             timer |-> "cleared",
             promise |-> Resolve(st.promise, event)]
       ELSE st

RECURSIVE OnAwaitEvents(_, _)
OnAwaitEvents(st, evs) ==
    IF evs = <<>> THEN st
    ELSE OnAwaitEvents(OnAwaitEvent(st, Head(evs)), Tail(evs))

\* awaitEventWithTimeout up to the return of transport.subscribe: the timer
\* is armed, the transport opens the subscription and may call the callback
\* before subscribe returns, while `sub` is still undefined; then `sub` is
\* assigned.
AwaitCall(evs) ==
    /\ UNCHANGED notAwaitVars
    /\ awPc = "idle"
    /\ LET st == OnAwaitEvents([sub |-> [open |-> TRUE, held |-> FALSE],
                                timer |-> "armed", promise |-> Unsettled],
                               evs)
       IN  /\ awSub' = [st.sub EXCEPT !.held = TRUE]
           /\ awTimer' = st.timer
           /\ awPromise' = st.promise
    /\ awDelivered' = evs
    /\ awPc' = "called"

\* The transport delivers an event to a subscription that is still open.
AwaitDeliver(event) ==
    /\ UNCHANGED notAwaitVars
    /\ awPc = "called"
    /\ awSub.open
    /\ Len(awDelivered) < MaxDeliveries
    /\ LET st == OnAwaitEvent([sub |-> awSub, timer |-> awTimer,
                               promise |-> awPromise], event)
       IN  /\ awSub' = st.sub
           /\ awTimer' = st.timer
           /\ awPromise' = st.promise
    /\ awDelivered' = Append(awDelivered, event)
    /\ awPc' = awPc

\* The timer fires after timeoutMs: sub.close(), resolve(null).
AwaitTimeout ==
    /\ UNCHANGED notAwaitVars
    /\ awPc = "called"
    /\ awTimer = "armed"
    /\ awTimer' = "fired"
    /\ awSub' = [awSub EXCEPT !.open = FALSE]
    /\ awPromise' = Resolve(awPromise, NoAwaitEvent)
    /\ UNCHANGED <<awPc, awDelivered>>

AwaitNext ==
    \/ \E evs \in EventSeqs(MaxDeliveries - 1) : AwaitCall(evs)
    \/ \E event \in AwaitEvents : AwaitDeliver(event)
    \/ AwaitTimeout

(***************************************************************************)
(* FeedIndex.loadFromBuffer, in FeedIndex.js and in its schema variant     *)
(***************************************************************************)

MaxLoadEvent == 2

LoadEvents == {[id |-> i, created_at |-> i, kind |-> 1] : i \in 1..MaxLoadEvent}

\* Item lists a valid serialized index may carry.
LoadItemLists ==
    {<<>>} \cup {<<[id |-> i, magnet |-> "magnet:a", ts |-> i, kind |-> 1]>> :
                    i \in 1..MaxLoadEvent}

\* Buffers: text that is not JSON, the JSON null, an object without items,
\* an object whose items is a number, and a serialized index.
LoadBuffers ==
    {[json |-> j, items |-> <<>>, updated_at |-> 0] :
        j \in {"garbage", "null", "noItems", "itemsNumber"}}
    \cup {[json |-> "index", items |-> l, updated_at |-> u] :
             l \in LoadItemLists, u \in 0..1}

ValidIndexBuffer(buffer) == buffer.json = "index"

LoadImpls == {"FeedIndex.js", "schema"}

\* JSON.parse throws on garbage; reading .items of null throws;
\* FeedIndexSchema.parse throws on everything but an index.
LoadThrows(impl, buffer) ==
    \/ buffer.json \in {"garbage", "null"}
    \/ impl = "schema" /\ ~ValidIndexBuffer(buffer)

\* this.items after loadFromBuffer(buffer).
LoadedItems(impl, buffer, items) ==
    IF LoadThrows(impl, buffer) THEN <<>>
    ELSE IF ValidIndexBuffer(buffer) THEN buffer.items
    ELSE items

\* this.updatedAt after loadFromBuffer(buffer): data.updated_at || 0.
LoadedUpdatedAt(impl, buffer, updatedAt) ==
    IF ~LoadThrows(impl, buffer) /\ ValidIndexBuffer(buffer)
       THEN buffer.updated_at
       ELSE updatedAt

NoLoad == [impl |-> None, buffer |-> [json |-> None, items |-> <<>>,
                                      updated_at |-> 0],
           before |-> <<>>]

LoadInit ==
    /\ ldItems = <<>>
    /\ ldUpdatedAt = 0
    /\ ldLast = NoLoad

\* add(event, magnetUri) on the index, at time Now.
LoadAdd(event) ==
    /\ UNCHANGED notLoadVars
    /\ ldItems' = FeedIndexAdd(ldItems, event, "magnet:a", FeedIndexLimit)
    /\ ldUpdatedAt' = FeedIndexUpdatedAt(ldItems, event, ldUpdatedAt, Now)
    /\ ldLast' = NoLoad

\* loadFromBuffer(buffer): the catch block logs and empties the list, the
\* call itself never throws.
LoadFromBuffer(impl, buffer) ==
    /\ UNCHANGED notLoadVars
    /\ ldItems' = LoadedItems(impl, buffer, ldItems)
    /\ ldUpdatedAt' = LoadedUpdatedAt(impl, buffer, ldUpdatedAt)
    /\ ldLast' = [impl |-> impl, buffer |-> buffer, before |-> ldItems]

LoadNext ==
    \/ \E event \in LoadEvents : LoadAdd(event)
    \/ \E impl \in LoadImpls, buffer \in LoadBuffers :
          LoadFromBuffer(impl, buffer)

(***************************************************************************)
(* TransportManager.bootstrapWoTP2P: the contact list of a P2P feed parsed *)
(* by _parseContactList(fullEvent), called with one argument               *)
(***************************************************************************)

\* The value of a parameter that was not passed.
UndefinedDegree == -1

\* a > b in JavaScript for numbers and undefined: false when either side
\* is undefined.
JsGreater(a, b) == a # UndefinedDegree /\ b # UndefinedDegree /\ a > b

\* The insert of _parseContactList and addFollow with the degree as passed.
BootAddTo(f, pk, degree) ==
    IF ~f[pk].present \/ JsGreater(f[pk].degree, degree)
       THEN [f EXCEPT ![pk] = FollowRecord(degree, 0)]
       ELSE f

RECURSIVE BootParseTags(_, _, _)
BootParseTags(f, tags, degree) ==
    IF tags = <<>> THEN f
    ELSE LET tag == Head(tags)
             g == IF tag[1] = "p" THEN BootAddTo(f, tag[2], degree) ELSE f
         IN  BootParseTags(g, Tail(tags), degree)

\* _parseContactList(event, degree)
BootParseContactList(f, tags, degree, max) ==
    IF JsGreater(degree, max) THEN f ELSE BootParseTags(f, tags, degree)

\* What the swarm answers for the target's feed.
BootProfiles == {"nofeed", "feedfail", "notes", "contacts", "contactsfail"}

NoBoot == [target |-> None, profile |-> None, outcome |-> None]

BootInit ==
    /\ btFollows = [pk \in WotKeys |-> Absent]
    /\ btLast = NoBoot

\* addFollow(pubkey, degree) before the bootstrap.
BootAddFollow(pk, degree) ==
    /\ UNCHANGED notBootVars
    /\ btFollows' = BootAddTo(btFollows, pk, degree)
    /\ btLast' = NoBoot

\* bootstrapWoTP2P(transportPubkey): the feed, its first kind-3 entry, the
\* event behind it, then _parseContactList(fullEvent).
BootstrapWoTP2P(target, profile) ==
    /\ UNCHANGED notBootVars
    /\ LET items == FeedItemsOf(target, profile)
           threw == profile \in {"feedfail", "contactsfail"}
           parsed == profile = "contacts" /\ HasContactEntry(items)
       IN  /\ btFollows' = IF parsed
                              THEN BootParseContactList(btFollows,
                                       ContactTagsOf(target), UndefinedDegree,
                                       DefaultMaxDegree)
                              ELSE btFollows
           /\ btLast' = [target |-> target, profile |-> profile,
                         outcome |-> IF threw THEN "threw" ELSE "returned"]

BootNext ==
    \/ \E pk \in WotKeys, d \in 0..MaxDegreeArg : BootAddFollow(pk, d)
    \/ \E target \in WotKeys, profile \in BootProfiles :
          BootstrapWoTP2P(target, profile)

Init ==
    /\ PubInit /\ FeedInit /\ SubInit /\ ReseedInit /\ MediaInit /\ DbInit
    /\ RelayInit
    /\ WotInit
    /\ IndexInit
    /\ PointerInit
    /\ PackagerInit
    /\ QueueInit
    /\ SeqInit
    /\ AddrInit
    /\ DiscInit
    /\ AwaitInit
    /\ LoadInit
    /\ BootInit

SpecPublish == Init /\ [][PubNext]_vars

SpecFeed == Init /\ [][FeedNext]_vars

SpecReseed == Init /\ [][ReseedNext]_vars

SpecP2P == Init /\ [][P2PNext]_vars

SpecMedia == Init /\ [][MediaNext]_vars

SpecDb == Init /\ [][DbNext]_vars

SpecDbNotes == Init /\ [][DbNotesNext]_vars

SpecRelay == Init /\ [][RelayNext]_vars

SpecWoT == Init /\ [][WotNext]_vars

SpecIndex == Init /\ [][IndexNext]_vars

SpecPointer == Init /\ [][PointerNext]_vars

SpecPackager == Init /\ [][PackagerNext]_vars

SpecQueue == Init /\ [][QueueNext]_vars

\* The awaited reseedEvent settles and the event loop runs every
\* setImmediate callback.
SpecQueueLive ==
    /\ Init /\ [][QueueNext]_vars
    /\ WF_vars(\E i \in 1..MaxEnqueues, ok \in BOOLEAN : InProcessSettles(i, ok))
    /\ WF_vars(InProcessImmediate)

SpecSeq == Init /\ [][SeqNext]_vars

SpecAddr == Init /\ [][AddrNext]_vars

SpecDiscover == Init /\ [][DiscNext]_vars

SpecAwait == Init /\ [][AwaitNext]_vars

SpecLoad == Init /\ [][LoadNext]_vars

SpecBoot == Init /\ [][BootNext]_vars

\* The application keeps publishing (every updateFeed ends in a
\* publishFeedPointer), and callbacks and timers of the event loop run.
SpecSeqLive ==
    /\ Init /\ [][SeqNext]_vars
    /\ WF_vars(SeqPublishCall)
    /\ WF_vars(SeqPutCallback)
    /\ WF_vars(SeqRetryTimer)

(***************************************************************************)
(* Claims about the feed pointer                                           *)
(***************************************************************************)

\* C3: every PUT that succeeds carries a seq strictly greater than the seq
\* of every PUT that succeeded before it (stated on the last two successful
\* PUTs: each success is compared with its predecessor when it happens).
C3_PointerMonotonicity ==
    Len(putLog) = 2 => putLog[1] < putLog[2]

(***************************************************************************)
(* Claims about P2P discovery                                              *)
(***************************************************************************)

\* C5: a subscribeP2P call that returns an item list returns one that
\* contains every event whose updateFeed had completed before the call.
C5_SubscriberSeesFedEvents ==
    subResult.status = "returned" =>
        \A id \in subResult.mustSee : id \in ItemIds(subResult.items)

(***************************************************************************)
(* Claims about fetchMedia                                                 *)
(***************************************************************************)

\* The first tag with this key exists and has a non-empty value.
HasValue(tags, key) ==
    \E i \in 1..Len(tags) :
        /\ tags[i][1] = key
        /\ tags[i][2] # ""
        /\ \A j \in 1..(i - 1) : tags[j][1] # key

C4_CachedAfterReturn ==
    /\ lastReturn.priorReturned =>
          lastReturn.result.kind = "magnet" /\ ~lastReturn.seeded
    /\ \A t \in TaskIds : tasks[t].pc # "idle" => ~tasks[t].priorReturned

\* C4 (amended): once a seed for an id has succeeded (or its bt tag was
\* cached) and the entry has not been evicted, the magnet is in the cache,
\* and every later reseedEvent call for that id returns that magnet at once
\* and starts no seed.
C4_CachedAfterSeed ==
    /\ \A id \in EventIds :
          completed[id] # "" =>
             /\ id \in CacheIds(magnetCache)
             /\ CacheValue(magnetCache, id) = completed[id]
    /\ lastReturn.priorCompleted # "" =>
          /\ lastReturn.result =
                Result("magnet", lastReturn.id, lastReturn.priorCompleted)
          /\ ~lastReturn.seeded
          /\ ~lastReturn.waited
    /\ \A t \in TaskIds : tasks[t].pc # "idle" => tasks[t].priorCompleted = ""

\* C4 witness: a call made after the seed of event 1 succeeded returned the
\* cached magnet.
C4_Witness ==
    /\ lastReturn.id = 1
    /\ lastReturn.priorCompleted = SeedMagnet(1)
    /\ lastReturn.result.kind = "magnet"

\* C6 (as stated): a reseedEvent call in background mode never fails.
C6_NeverFails ==
    lastReturn.background => lastReturn.result.kind \in {"magnet", "queued"}

\* C6 (amended): a reseedEvent call in background mode for an event that
\* has an id never fails and never waits for the seed; when the id is not
\* cached and the event has no bt tag it returns "queued:{id}"; the outcome
\* of the spawned seed or feed update never reaches the caller.
C6_BackgroundQueued ==
    (lastReturn.background /\ lastReturn.id # 0) =>
        /\ lastReturn.result.kind \in {"magnet", "queued"}
        /\ ~lastReturn.waited
        /\ (~lastReturn.cached /\ ~lastReturn.btTagged) =>
              lastReturn.result = Result("queued", lastReturn.id, "")

\* C6 witness: a background call returned "queued:{id}", its seed was
\* started and has failed, and the answer the caller got stands.
C6_Witness ==
    /\ lastReturn.background
    /\ lastReturn.result.kind = "queued"
    /\ lastReturn.seeded
    /\ \A t \in TaskIds : tasks[t].pc = "idle"
    /\ magnetCache = <<>>

\* C8: a seed started by handleIncomingEvent is a background seed of an
\* event whose author is in the WoT graph; when the author is not followed,
\* or no WoT manager is configured, the call returns null and seeds nothing.
C8_SeedOnlyFollowed ==
    /\ \A t \in TaskIds :
          (tasks[t].pc # "idle" /\ tasks[t].origin = "incoming") =>
             /\ wotManager.present
             /\ AuthorOf(tasks[t].id) \in wotManager.follows
             /\ tasks[t].background
    /\ (lastReturn.op = "incoming"
          /\ ~(wotManager.present
                 /\ AuthorOf(lastReturn.id) \in wotManager.follows)) =>
          /\ lastReturn.result.kind = "null"
          /\ ~lastReturn.seeded

\* C8 witness: with only alice followed, an event of alice is being seeded
\* for handleIncomingEvent, and the last incoming event (of bob) got null.
C8_Witness ==
    /\ wotManager.present
    /\ wotManager.follows = {"alice"}
    /\ lastReturn.op = "incoming"
    /\ lastReturn.result.kind = "null"
    /\ \E t \in TaskIds :
          tasks[t].pc = "seeding" /\ tasks[t].origin = "incoming"

(***************************************************************************)
(* Claims about the relay's event store                                    *)
(***************************************************************************)

\* The saved events have pairwise distinct ids.
DistinctIds ==
    \A m, n \in 1..Len(saves) :
        m # n => saves[m].event.id # saves[n].event.id

KindFilter(k) == [ids |-> AnyOf, authors |-> AnyOf, kinds |-> OneOf({k})]

\* C9: when the events saved so far have distinct ids and exactly two of
\* them, A and then B (the last save), are of a replaceable kind k, both of
\* the same pubkey and B with the greater created_at, queryEvents for kind k
\* returns exactly one row, that of B.
C9_ReplaceableKeepsNewest ==
    \A i \in 1..Len(saves) :
        LET j == Len(saves)
            A == saves[i].event
            B == saves[j].event
            k == B.kind
        IN  (/\ i < j
             /\ DistinctIds
             /\ k \in {0, 3} \cup (10000..19999)
             /\ A.kind = k
             /\ A.pubkey = B.pubkey
             /\ A.created_at < B.created_at
             /\ \A m \in 1..Len(saves) :
                   m \notin {i, j} => saves[m].event.kind # k)
            => \A q \in QueryEvents(events, tagsTable, KindFilter(k)) :
                  /\ Len(q) = 1
                  /\ Row(q[1]) = Row(B)

\* C9 witness: a kind-3 event, a note, and a newer kind-3 event of the same
\* author were saved; the last save removed the older kind-3 row.
C9_Witness ==
    /\ Len(saves) = 3
    /\ DistinctIds
    /\ saves[1].event.kind = 3
    /\ saves[2].event.kind = 1
    /\ saves[3].event.kind = 3
    /\ saves[1].event.pubkey = saves[3].event.pubkey
    /\ saves[1].event.created_at < saves[3].event.created_at
    /\ saves[3].removed # {}
    /\ Cardinality(events) = 2

\* The d-tag value of a tag list: that of its first d tag, "" without one.
DValue(tags) ==
    IF \E i \in 1..Len(tags) : tags[i][1] = "d"
       THEN tags[CHOOSE i \in 1..Len(tags) :
                    /\ tags[i][1] = "d"
                    /\ \A j \in 1..(i - 1) : tags[j][1] # "d"][2]
       ELSE ""

\* C10: after saving an event B of a parameterized replaceable kind (ids
\* distinct), no older row of the same pubkey, kind and d-tag value is left
\* in the store, and every row the save removed was an older row of the same
\* pubkey, kind and d-tag value.
C10_ScopedReplacement ==
    (saves # <<>> /\ DistinctIds) =>
        LET last == saves[Len(saves)]
            B == last.event
        IN  (B.kind \in 30000..39999) =>
               /\ \A r \in events :
                     (/\ r.id # B.id
                      /\ r.pubkey = B.pubkey
                      /\ r.kind = B.kind
                      /\ r.created_at < B.created_at)
                     => DValue(TagsOf(tagsTable, r.id)) # DValue(B.tags)
               /\ \A x \in last.removed :
                     /\ x.row.pubkey = B.pubkey
                     /\ x.row.kind = B.kind
                     /\ x.row.created_at < B.created_at
                     /\ DValue(x.tags) = DValue(B.tags)

\* The e-tag targets of a tag list.
Targets(tags) == {v \in {IdText(i) : i \in 1..MaxRowId} :
                     \E i \in 1..Len(tags) : tags[i] = <<"e", v>>}

IdFilter(id) == [ids |-> OneOf({id}), authors |-> AnyOf, kinds |-> AnyOf]

\* C11: the save of a kind-5 event D (ids distinct) removed exactly the rows
\* that were stored before it with an id among D's e-tag targets and D's
\* pubkey; a targeted row of another author is still stored, and a query
\* for a removed id returns nothing.
C11_DeletionByAuthor ==
    (saves # <<>> /\ DistinctIds /\ saves[Len(saves)].event.kind = 5) =>
        LET last == saves[Len(saves)]
            D == last.event
            gone == {x.row : x \in last.removed}
            before == (events \ {Row(D)}) \cup gone
        IN  /\ gone = {r \in before : /\ IdText(r.id) \in Targets(D.tags)
                                      /\ r.pubkey = D.pubkey}
            /\ \A r \in before :
                  r.pubkey # D.pubkey => r \in events
            /\ \A r \in gone :
                  QueryEvents(events, tagsTable, IdFilter(r.id)) = {<<>>}

\* C11 witness: a kind-5 event of one author targeting two stored events
\* removed the one of that author and left the other author's in the store.
C11_Witness ==
    /\ Len(saves) = 3
    /\ DistinctIds
    /\ saves[3].event.kind = 5
    /\ Targets(saves[3].event.tags) = {IdText(1), IdText(2)}
    /\ Cardinality(saves[3].removed) = 1
    /\ \E r \in events : r.id \in {1, 2} /\ r.pubkey # saves[3].event.pubkey

(***************************************************************************)
(* Claims about TransportManager.publish                                   *)
(***************************************************************************)
(* C12: an event the relay accepts is delivered only to connections that   *)
(* hold a registered subscription (a REQ not yet CLOSEd) whose filter      *)
(* matches the event; a connection without one receives no EVENT message   *)
(* for it.                                                                 *)
(***************************************************************************)
FilterMatches(f, e) ==
    /\ f.ids.on => e.id \in f.ids.vals
    /\ f.authors.on => e.pubkey \in f.authors.vals
    /\ f.kinds.on => e.kind \in f.kinds.vals

HoldsMatchingSubscription(c, e) ==
    \E s \in clients[c].subscriptions :
        \E i \in 1..Len(s.filters) : FilterMatches(s.filters[i], e)

C12_DeliveredToMatchingOnly ==
    lastEvent # NoEvent =>
        \A c \in Conns :
            \A m \in outbox[c] :
                m.type = "EVENT" => HoldsMatchingSubscription(c, m.event)

(***************************************************************************)
(* C13: when a whitelist is configured, an EVENT whose pubkey is not       *)
(* whitelisted is answered with a negative OK and is neither stored,       *)
(* submitted to the SeedingQueue nor broadcast.                            *)
(***************************************************************************)
NotWhitelisted == lastEvent # NoEvent /\ lastEvent.pubkey \notin allowed

C13_WhitelistReject ==
    configured =>
        /\ \A r \in events : r.pubkey \in allowed
        /\ \A i \in 1..Len(seedingQueue.jobs) :
              seedingQueue.jobs[i].pubkey \in allowed
        /\ NotWhitelisted =>
              /\ outbox[lastEvent.conn] =
                    {[type |-> "OK", id |-> lastEvent.id, ok |-> FALSE]}
              /\ \A c \in Conns \ {lastEvent.conn} : outbox[c] = {}

(***************************************************************************)
(* C14: the degree recorded for a pubkey never increases: inserting (p, d) *)
(* when p is recorded with a degree smaller than or equal to d leaves the  *)
(* record unchanged, and inserting (p, d) with d strictly smaller than the *)
(* recorded degree overwrites it with d.                                   *)
(***************************************************************************)
LastInsertOf(pk) ==
    {i \in 1..Len(lastInserts) :
        /\ lastInserts[i].pk = pk
        /\ \A j \in (i + 1)..Len(lastInserts) : lastInserts[j].pk # pk}

C14_DegreeNeverIncreases ==
    /\ \A i \in 1..Len(lastInserts) :
          LET ins == lastInserts[i]
          IN  /\ ins.new.present
              /\ ins.old.present =>
                    /\ ins.new.degree <= ins.old.degree
                    /\ ins.old.degree <= ins.degree => ins.new = ins.old
                    /\ ins.degree < ins.old.degree =>
                          ins.new.degree = ins.degree
    /\ \A pk \in WotKeys :
          \A i \in LastInsertOf(pk) : follows[pk] = lastInserts[i].new

C14_Witness ==
    /\ Len(lastInserts) = 3
    /\ lastInserts[1].old.present
    /\ lastInserts[1].old.degree > lastInserts[1].degree
    /\ follows[lastInserts[1].pk].degree = lastInserts[1].degree
    /\ lastInserts[2].old.present
    /\ lastInserts[2].old.degree < lastInserts[2].degree
    /\ lastInserts[3].old.degree = lastInserts[3].degree

(***************************************************************************)
(* C15: after syncWoTRecursiveP2P completes, for every node recorded at    *)
(* degree d, 1 <= d < maxDegree, whose transport key and feed resolve and  *)
(* whose feed index has a kind-3 entry, every pubkey p-tagged in that      *)
(* contact list is in the graph with degree at most d + 1.                 *)
(*                                                                         *)
(* C15_SyncAddsFollows reads it for the nodes whose kind-3 event is also   *)
(* fetched; C15_SyncAddsFollowsOfEntry for every node whose index has the  *)
(* entry.                                                                  *)
(***************************************************************************)
SyncedNodes ==
    {pk \in WotKeys : /\ follows[pk].present
                      /\ 1 <= follows[pk].degree
                      /\ follows[pk].degree < maxDegree}

FollowsRecorded(pk) ==
    \A p \in PTagged(ContactTagsOf(pk)) :
        /\ follows[p].present
        /\ follows[p].degree <= follows[pk].degree + 1

C15_SyncAddsFollows ==
    wotSync.pc = "done" =>
        \A pk \in SyncedNodes : net[pk] = "contacts" => FollowsRecorded(pk)

C15_SyncAddsFollowsOfEntry ==
    wotSync.pc = "done" =>
        \A pk \in SyncedNodes :
            net[pk] \in {"contacts", "contactsfail"} => FollowsRecorded(pk)

C15_Witness ==
    /\ wotSync.pc = "done"
    /\ maxDegree = DefaultMaxDegree
    /\ net.bob = "contacts"
    /\ follows.bob.present /\ follows.bob.degree = 1
    /\ follows.carol.present /\ follows.carol.degree = 2
    /\ follows.alice.present /\ follows.alice.degree = 2

(***************************************************************************)
(* C16: subscribeFollowsP2P returns the union of the feed-index items of   *)
(* every pubkey in the WoT graph whose transport key resolves, and the     *)
(* returned list is sorted by ts descending.                               *)
(***************************************************************************)
ResolvedFollows ==
    {pk \in WotKeys : follows[pk].present /\ net[pk] # "nokey"}

ItemsOfFeed(pk) ==
    LET items == FeedItemsOf(pk, net[pk])
    IN  {items[i] : i \in 1..Len(items)}

StoredMagnets(items, id) ==
    {items[i].magnet : i \in {j \in 1..Len(items) : items[j].id = id}}

C17_DuplicateAddNoOp ==
    lastAdd.event.id \in ItemIds(lastAdd.items) =>
        /\ feedIndex.items = lastAdd.items
        /\ feedIndex.updatedAt = lastAdd.updatedAt

C17_Witness ==
    /\ lastAdd.event.id \in ItemIds(lastAdd.items)
    /\ lastAdd.magnet \notin StoredMagnets(lastAdd.items, lastAdd.event.id)
    /\ \E i \in 1..Len(lastAdd.items) :
          /\ lastAdd.items[i].id = lastAdd.event.id
          /\ lastAdd.items[i].ts # lastAdd.event.created_at
    /\ clock > feedIndex.updatedAt
    /\ feedIndex.items = lastAdd.items

(***************************************************************************)
(* C18: after adding any sequence of events with distinct ids, the index   *)
(* holds exactly the `limit` entries with the greatest ts among all events *)
(* added so far (all of them when fewer than `limit` were added).          *)
(***************************************************************************)
Min(a, b) == IF a < b THEN a ELSE b

C18_NewestKept ==
    ~dupAdded =>
        LET kept == {e \in added : e.id \in ItemIds(feedIndex.items)}
        IN  /\ ItemIds(feedIndex.items) = {e.id : e \in kept}
            /\ Len(feedIndex.items) = Cardinality(kept)
            /\ Cardinality(kept) = Min(feedIndex.limit, Cardinality(added))
            /\ \A i \in 1..Len(feedIndex.items) :
                  \E e \in kept : /\ e.id = feedIndex.items[i].id
                                  /\ e.created_at = feedIndex.items[i].ts
            /\ \A e \in kept : \A x \in added \ kept :
                  e.created_at >= x.created_at

C18_Witness ==
    /\ ~dupAdded
    /\ Cardinality(added) = MaxIndexId
    /\ feedIndex.limit = FeedIndexLimit
    /\ Len(feedIndex.items) = FeedIndexLimit
    /\ lastAdd.event.id \notin ItemIds(feedIndex.items)
    /\ \E x \in added : \A i \in 1..Len(feedIndex.items) :
          x.created_at < feedIndex.items[i].ts

(***************************************************************************)
(* C19: after a successful publishFeedPointer(ih) on a fresh FeedManager,  *)
(* resolveFeedPointer for the manager's own key returns a record whose     *)
(* infohash equals ih, whose seq is 1 (the seq carried by that PUT) and    *)
(* whose npk is null when no relay pubkey was configured.                  *)
(*                                                                         *)
(* C19_ResolveReturnsPublished is the statement as it stands;              *)
(* C19_ResolveReturnsStoredRecord gives the infohash in lower case and the *)
(* seq of the PUT that succeeded, 1 plus the attempts that failed.         *)
(***************************************************************************)
\* The call is the first of a manager whose seq started at 1, it resolved,
\* and resolveFeedPointer then returned a record.
FirstPublishResolved ==
    /\ ptrStart = 1
    /\ ptrCall.pc = "resolved"
    /\ ptrPublished = 1
    /\ ptrCall.putSeq - ptrCall.failed = ptrStart
    /\ ptrResolved.status = "record"

LowerCase(str) == [i \in 1..Len(str) |-> IF str[i] = "D" THEN "d" ELSE str[i]]

NpkNullWhenUnset == ptrNpk = <<>> => ptrResolved.nostrPubkey.null

C19_ResolveReturnsPublished ==
    FirstPublishResolved =>
        /\ ptrResolved.infoHash = ptrCall.ih
        /\ ptrResolved.seq = 1
        /\ NpkNullWhenUnset

C19_ResolveReturnsStoredRecord ==
    FirstPublishResolved =>
        /\ ptrResolved.infoHash = LowerCase(ptrCall.ih)
        /\ ptrResolved.seq = ptrCall.putSeq
        /\ ptrResolved.seq = 1 + ptrCall.failed
        /\ NpkNullWhenUnset

C19_Witness ==
    /\ FirstPublishResolved
    /\ ptrNpk = <<>>
    /\ ptrCall.failed = 0
    /\ ptrCall.ih = <<"d", "d">>
    /\ ptrResolved.infoHash = <<"d", "d">>
    /\ ptrResolved.seq = 1
    /\ ptrResolved.nostrPubkey.null

(***************************************************************************)
(* C20: for every valid event E, unpack(package(E)) equals E field by      *)
(* field, and getFilename(E) equals E.id followed by ".json".  A valid      *)
(* event is an object of the event fields that package accepts.            *)
(***************************************************************************)
ValidEvent(event) ==
    /\ event.id.has /\ Len(event.id.v) >= 1
    /\ event.pubkey.has => Len(event.pubkey.v) >= 1
    /\ event.sig.has => Len(event.sig.v) >= 1
    /\ ~event.extra.has

C20_RoundTrip ==
    ValidEvent(pkEvent) =>
        /\ ~pkBuffer.threw
        /\ pkFilename = pkEvent.id.v \o ".json"
        /\ (pkUnpacked.called /\ ~pkUnpacked.garbage) =>
              /\ ~pkUnpacked.threw
              /\ \A key \in DOMAIN pkEvent :
                    pkUnpacked.event[key] = pkEvent[key]

C20_Witness ==
    /\ ValidEvent(pkEvent)
    /\ pkUnpacked.called /\ ~pkUnpacked.garbage /\ ~pkUnpacked.threw
    /\ pkEvent.tags.has /\ pkEvent.tags.v # <<>>
    /\ pkEvent.content.has /\ pkEvent.content.v = ""
    /\ ~pkEvent.sig.has
    /\ pkEvent.kind.has
    /\ pkFilename = "e1.json"

(***************************************************************************)

\* C1: no bt.publish call (for the event or a media file) has been started
\* unless nostr.publish has completed successfully; when the relay publish
\* threw, bt.publish was called zero times.
C1_DeferredSeeding ==
    /\ Len(seedPromises) > 0 => relayStatus = "ok"
    /\ relayStatus = "err" => Len(seedPromises) = 0
    /\ pubPc = "relay" => Len(seedPromises) = 0

\* C1 witness: the relay accepted and the event and two media files are
\* being seeded.
C1_Witness ==
    /\ relayStatus = "ok"
    /\ pubPc = "seeding"
    /\ Len(seedPromises) = 3

\* C2: publish() rejects with TransportError("nostr") when the relay
\* rejects, and it returns a result only when every seed it started was
\* fulfilled, the result carrying one magnet per seed; once a seed has
\* failed the call ends rejected, never returned.
C2_NoPartialSuccess ==
    /\ relayStatus = "err" =>
          /\ pubPc \in {"rejected", "idle"}
          /\ pubResult.status = "rejected"
          /\ pubResult.error = "TransportError"
          /\ pubResult.transportType = "nostr"
    /\ pubResult.status = "returned" =>
          /\ relayStatus = "ok"
          /\ \A i \in 1..Len(seedPromises) : seedPromises[i] = "ok"
          /\ Len(seedPromises) = 1 + Cardinality(SeedableFiles(mediaFiles))
          /\ pubResult.magnetUri = MagnetOf(1)
          /\ Len(pubResult.mediaMagnets) = Cardinality(SeedableFiles(mediaFiles))
    /\ (pubPc \in {"returned", "rejected", "idle"}
          /\ \E i \in 1..Len(seedPromises) : seedPromises[i] = "err")
        => pubResult.status = "rejected"

\* C2 witness: the relay accepted, one seed was fulfilled and another
\* failed, and publish() has rejected.
C2_Witness ==
    /\ relayStatus = "ok"
    /\ pubResult.status = "rejected"
    /\ \E i, j \in 1..Len(seedPromises) :
          seedPromises[i] = "ok" /\ seedPromises[j] = "err"

(***************************************************************************)
(* Claims about the seeding queues                                         *)
(***************************************************************************)

\* C21: at any moment at most N seeding jobs are being executed, N being the
\* worker's configured concurrency for the BullMQ queue and one for the
\* in-process queue, however many events were enqueued.
C21_AtMostNRunning ==
    /\ qKind = "bullmq" => Cardinality(ActiveJobs) <= qConcurrency
    /\ qKind = "in-process" => Len(ipRunning) <= 1

\* C21 witness: each queue is saturated while a further job waits.
C21_Witness ==
    \/ /\ qKind = "bullmq"
       /\ qConcurrency = MaxConcurrency
       /\ Cardinality(ActiveJobs) = qConcurrency
       /\ qWait # <<>>
    \/ /\ qKind = "in-process"
       /\ Len(ipRunning) = 1
       /\ Len(ipQueue) >= 2

RECURSIVE AttemptsUpTo(_)
AttemptsUpTo(e) == IF e = 0 THEN 0 ELSE ipAttempts[e] + AttemptsUpTo(e - 1)

FailuresLogged(j) == {entry \in qLog : entry[1] = j}

PutAttempts == ptrCall.failed + 1

\* C27: a publishFeedPointer call with the default retries makes at most 3
\* dht.put attempts.
C27_AtMostThreeAttempts ==
    (/\ ptrCall.pc \in {"put", "wait", "resolved", "rejected"}
     /\ ptrCall.remaining + ptrCall.failed = DefaultRetries)
        => PutAttempts <= 3

(***************************************************************************)
(* Claims about overlapping and failing updateFeed calls                   *)
(***************************************************************************)

\* The updateFeed calls that have added to the index and not yet finished.
RunningUpdates ==
    {c \in CallIds : calls[c].op = "updateFeed" /\ calls[c].pc # "idle"}

\* C23: updateFeed calls on one FeedManager are serialized: while one call
\* awaits its index seed or its pointer PUT, no other call has added to the
\* index, started its seed or sent its PUT.
C23_UpdateFeedSerialized == Cardinality(RunningUpdates) <= 1

\* C24: once every updateFeed call has completed, the stored pointer record,
\* when it was written by updateFeed and carries the greatest seq, names
\* the index that holds every event whose updateFeed succeeded (all of them
\* fit within the limit).
C24_LatestPointerNamesFullIndex ==
    (/\ \A c \in CallIds : calls[c].pc = "idle"
     /\ dht.found
     /\ dht.ih # DirectInfoHash
     /\ putLog # <<>> /\ putLog[Len(putLog)] = dht.seq
     /\ Len(putLog) = 2 => putLog[1] < putLog[2]
     /\ Cardinality(fedEvents) <= FeedIndexLimit)
        => /\ fedEvents \subseteq ItemIds(dht.ih)
           /\ dht.ih \in swarm

\* C25: when an updateFeed call for an event that no call has fed ends in
\* failure (its seed or its last PUT failed), the index does not hold the
\* event afterwards.
C25_FailedUpdateLeavesIndex ==
    [][\A c \in CallIds :
          (/\ calls[c].op = "updateFeed"
           /\ calls[c].pc # "idle"
           /\ calls'[c].pc = "idle"
           /\ calls[c].event \notin fedEvents')
             => calls[c].event \notin ItemIds(index')]_vars

(***************************************************************************)
(* Claims about the sequence number                                        *)
(***************************************************************************)

\* A dht.put has just been sent and the store accepted its record.
PutAccepted == sqCall.pc = "put" /\ sqCall.put = "ok"

C28_SyncSequence ==
    sqSync.pc = "returned" =>
        /\ sqSync.got.kind = "record" =>
              /\ sqSync.returned = sqSync.got.seq + 1
              /\ sqSeq > sqSync.got.seq
              /\ (sqCall.pc = "put" /\ sqCall.putSeq >= sqSync.returned)
                    => sqCall.putSeq > sqSync.got.seq
        /\ sqSync.got.kind # "record" => sqSync.returned = sqSync.before
        /\ sqSeq >= sqSync.returned

\* C28 witness: a sync found the record with the highest starting seq while
\* this.seq was behind it, and the next PUT was accepted.
C28_Witness ==
    /\ sqSync.pc = "returned"
    /\ sqSync.got = [kind |-> "record", seq |-> MaxStored]
    /\ sqSync.before <= MaxStored
    /\ PutAccepted
    /\ sqCall.putSeq = MaxStored + 1
    /\ sqCall.remaining = DefaultRetries

(***************************************************************************)
(* Claims about the pointer's DHT address                                  *)
(***************************************************************************)

\* C29: resolveFeedPointer(pubkey) sends its GET to SHA-1(pubkey bytes), so
\* that a pointer published under that key is found.
C29_ResolveAtSha1Target ==
    adGet.impl # None =>
        /\ adGet.target = Sha1(BufferFromHex(adGet.pubkey))
        /\ adGet.published => adGet.found

(***************************************************************************)
(* Claims about FeedTracker.discover                                       *)
(***************************************************************************)

InQueries(call, source) ==
    \E i \in 1..Len(call.queries) : call.queries[i] = source

\* C30: a discover call that finds the key cached returns the cached magnet
\* and queries nothing; otherwise the DHT pointer, when the transport has a
\* DHT, is resolved first, and the relay bridge is queried only after the
\* DHT path gave no magnet and only when a Nostr pubkey was supplied; the
\* cache is written exactly when the call found a magnet.
C30_DiscoverOrder ==
    /\ \A k \in DiscoverKeys :
          dcCache[k].has => dcCache[k].magnet.src \in {"dht", "relay"}
    /\ \A c \in DiscoverCallIds :
          LET call == dcCalls[c]
          IN  /\ call.cacheHit =>
                    /\ call.queries = <<>>
                    /\ call.pc = "returned"
                    /\ call.result # NoMagnet
                    /\ ~call.cached
              /\ call.queries \in
                    {<<>>, <<"dht">>, <<"relay">>, <<"dht", "relay">>}
              /\ InQueries(call, "relay") =>
                    /\ call.nostrPubkey
                    /\ ~call.dhtMagnet
                    /\ call.pc = "relay" => call.magnetUri = NoMagnet
              /\ (call.pc # "idle" /\ ~call.cacheHit /\ dcTransport.dht) =>
                    call.queries[1] = "dht"
              /\ call.pc = "returned" =>
                    (call.cached <=> (~call.cacheHit /\ call.result # NoMagnet))
              /\ call.pc # "returned" => ~call.cached

\* C30 witness: one call went to the DHT, then to the relay bridge, found
\* the magnet there and cached it; another then returned it from the cache.
C30_Witness ==
    \E c, d \in DiscoverCallIds :
       /\ dcCalls[c].pc = "returned"
       /\ dcCalls[c].queries = <<"dht", "relay">>
       /\ dcCalls[c].result.src = "relay"
       /\ dcCalls[c].cached
       /\ dcCalls[d].key = dcCalls[c].key
       /\ dcCalls[d].cacheHit
       /\ dcCalls[d].result = dcCalls[c].result

(***************************************************************************)
(* Claims about awaitEventWithTimeout                                      *)
(***************************************************************************)

\* The first delivered event that passes the matcher, if any.
FirstMatch(evs) ==
    LET hits == {i \in 1..Len(evs) : evs[i].match}
    IN  IF hits = {} THEN NoAwaitEvent
        ELSE evs[CHOOSE i \in hits : \A j \in hits : i <= j]

\* C31: once the promise is settled it holds the first delivered event that
\* passed the matcher, or null when the timer fired first, and the
\* subscription has been closed.
C31_ResolvesOnceAndCloses ==
    awPromise.settled =>
        /\ awPromise.value = IF awTimer = "fired" THEN NoAwaitEvent
                             ELSE FirstMatch(awDelivered)
        /\ ~awSub.open

(***************************************************************************)
(* Claims about the FeedIndex invariants                                   *)
(***************************************************************************)

\* C32: in every state reached from an empty FeedIndex by add calls the
\* items are sorted by ts descending, no two items share an id, and there
\* are at most `limit` items.
C32_IndexInvariants ==
    LET items == feedIndex.items
    IN  /\ \A i, j \in 1..Len(items) : i < j => items[i].ts >= items[j].ts
        /\ \A i, j \in 1..Len(items) : items[i].id = items[j].id => i = j
        /\ Len(items) <= feedIndex.limit

\* C32 witness: a full index with entries of different ts, after adds that
\* repeated an id and after an entry was trimmed away.
C32_Witness ==
    /\ Len(feedIndex.items) = feedIndex.limit
    /\ feedIndex.limit = FeedIndexLimit
    /\ feedIndex.items[1].ts > feedIndex.items[Len(feedIndex.items)].ts
    /\ dupAdded
    /\ \E e \in added : e.id \notin ItemIds(feedIndex.items)

(***************************************************************************)
(* Claims about loadFromBuffer                                             *)
(***************************************************************************)

\* C33: after loadFromBuffer on a buffer that is not a valid serialized
\* index the item list is empty, whatever it held before.
C33_InvalidBufferEmptiesIndex ==
    (ldLast.impl # None /\ ~ValidIndexBuffer(ldLast.buffer)) => ldItems = <<>>

(***************************************************************************)
(* Claims about bootstrapWoTP2P                                            *)
(***************************************************************************)

\* C34: after bootstrapWoTP2P has parsed the target's contact list, every
\* pubkey p-tagged in it is in the graph with a degree of 1 or less.
C34_BootstrapRecordsAtDegreeOne ==
    (btLast.profile = "contacts" /\ btLast.outcome = "returned") =>
        \A p \in PTagged(ContactTagsOf(btLast.target)) :
            /\ btFollows[p].present
            /\ btFollows[p].degree # UndefinedDegree
            /\ btFollows[p].degree <= 1

(***************************************************************************)
(* Claims about the relay EVENT handler                                    *)
(***************************************************************************)

RECURSIVE InsertedEvents(_)
InsertedEvents(log) ==
    IF log = <<>> THEN <<>>
    ELSE (IF log[1].changes > 0 THEN <<log[1].event>> ELSE <<>>)
         \o InsertedEvents(Tail(log))

Accepted == lastEvent # NoEvent
               /\ (allowed = {} \/ lastEvent.pubkey \in allowed)

BroadcastSent == \E c \in Conns : \E m \in outbox[c] : m.type = "EVENT"

\* C35: the events on the SeedingQueue are those saveEvent reported as
\* inserted, once each and only when seeding is enabled; an accepted EVENT
\* is acknowledged, and broadcast exactly when its save reported an
\* inserted row.
C35_EnqueueAndBroadcastIffInserted ==
    /\ seedingQueue.jobs =
          IF seedingQueue.present THEN InsertedEvents(saves) ELSE <<>>
    /\ Accepted =>
          /\ [type |-> "OK", id |-> lastEvent.id, ok |-> TRUE]
                \in outbox[lastEvent.conn]
          /\ BroadcastSent <=> saves[Len(saves)].changes > 0

\* A stored id is sent again with seeding on: acknowledged only.
C35_Witness ==
    /\ Accepted
    /\ seedingQueue.present
    /\ Len(saves) >= 2
    /\ saves[Len(saves)].changes = 0
    /\ \E i \in 1..(Len(saves) - 1) :
          /\ saves[i].event.id = lastEvent.id
          /\ saves[i].changes > 0
    /\ Len(seedingQueue.jobs) = 1
    /\ ~BroadcastSent

(***************************************************************************)
(* Claims about the in-process SeedingQueue                                *)
(***************************************************************************)

\* C36: the events handed to reseedEvent(event, false) are, in order, the
\* first of the events enqueued, and every enqueued event is eventually
\* handed over.
C36_HandedOverInOrder ==
    /\ [](ipHanded = SubSeq(ipEnqueued, 1, Len(ipHanded)))
    /\ \A k \in 1..MaxEnqueues :
          (Len(ipEnqueued) >= k) ~> (Len(ipHanded) >= k)

\* An event was enqueued while another was being processed, the reseed of
\* the first failed, and the second was handed over after it.
C36_Witness ==
    /\ Len(ipEnqueued) = MaxEnqueues
    /\ ipHanded = SubSeq(ipEnqueued, 1, 2)
    /\ ipHanded[1] # ipHanded[2]
    /\ ipHanded[1] \in ipLog
    /\ Len(ipRunning) = 1
    /\ ipQueue # <<>>

(***************************************************************************)
(* Claims about the store after any sequence of saveEvent calls            *)
(***************************************************************************)

\* The d-tag value of a stored row, as saveEvent reads it for a new event.
StoredDTag(r) == Or(FindTagValue(TagsOf(tagsTable, r.id), "d"), "")

SameReplacementKey(r1, r2) ==
    /\ r1.pubkey = r2.pubkey
    /\ r1.kind = r2.kind
    /\ \/ IsReplaceable(r1.kind)
       \/ IsParameterized(r1.kind) /\ StoredDTag(r1) = StoredDTag(r2)

SavedWithKeyOf(r) ==
    {saves[i].event : i \in {j \in 1..Len(saves) :
        /\ saves[j].event.pubkey = r.pubkey
        /\ saves[j].event.kind = r.kind
        /\ IsParameterized(r.kind) =>
              DTagParam(saves[j].event) = StoredDTag(r)}}

\* C37: the store holds at most one event per replacement key, and it is
\* the one with the greatest created_at saved for that key.
C37_OnePerReplacementKey ==
    \A r1 \in events :
        (IsReplaceable(r1.kind) \/ IsParameterized(r1.kind)) =>
            /\ \A r2 \in events : SameReplacementKey(r1, r2) => r1 = r2
            /\ \A e \in SavedWithKeyOf(r1) : e.created_at <= r1.created_at

\* C38: a saveEvent call for an event that was saved before and that
\* returns changes = 0 removes no row and no tag.
C38_NoChangeLeavesStore ==
    \A i \in 1..Len(saves) :
        (/\ saves[i].changes = 0
         /\ \E j \in 1..(i - 1) : saves[j].event = saves[i].event)
            => saves[i].removed = {}

\* The last saveEvent call that inserted the row with this id.
InsertOf(id) ==
    LET ins == {i \in 1..Len(saves) :
                   saves[i].changes > 0 /\ saves[i].event.id = id}
    IN  CHOOSE i \in ins : \A j \in ins : j <= i

MatchAll == [ids |-> AnyOf, authors |-> AnyOf, kinds |-> AnyOf]

\* C39: every event queryEvents returns has the tag list it was saved
\* with.
C39_TagsRoundTrip ==
    \A q \in QueryRows(events, tagsTable, MatchAll) :
        q.tags = saves[InsertOf(q.id)].event.tags

(***************************************************************************)
(* Claims about a failed reseedEvent                                       *)
(***************************************************************************)

\* An awaited reseedEvent call of task t rejects at its feed update.
FeedUpdateRejects(t) ==
    /\ tasks[t].pc = "feeding"
    /\ ~tasks[t].background
    /\ tasks'[t].pc = "idle"
    /\ lastReturn'.waited
    /\ lastReturn'.id = tasks[t].id
    /\ lastReturn'.result.kind = "Error"

\* C40: when an awaited reseedEvent(event, false) rejects because the feed
\* update failed, the magnet cache holds no entry for event.id afterwards.
C40_FailedReseedNotCached ==
    [][\A t \in TaskIds :
          FeedUpdateRejects(t) => tasks[t].id \notin CacheIds(magnetCache')]_vars

====
